---- MODULE Spec2Model ----
(***************************************************************************)
(* Decision-record tools of provenancecode-starter:                        *)
(*   tools/new-decision.js / tools/new-decision.sh  (list, create)         *)
(*   tools/validate-decision.js                      (validate, --all)     *)
(*                                                                         *)
(* Strings of the program are tuples of one-character strings, so that the *)
(* regular expressions, padding and substitutions of the tools are         *)
(* computed character by character.                                        *)
(***************************************************************************)
EXTENDS Integers, Sequences, FiniteSets, TLC

VARIABLES
    decisionsDirExists, \* whether provenance/decisions exists
    fs,                 \* provenance/decisions: entry name -> entry
    created,            \* the directories the tool made, in creation order
    last,               \* the latest invocation: its arguments and its outcome
    pc,                 \* concurrent creates: each invocation's position
    local,              \* concurrent creates: each invocation's local variables
    writer,             \* concurrent creates: target file -> invocations that wrote it
    record,             \* validate: the record directory under validation
    schemaFile,         \* validate: provenance/schemas/decision.schema.json
    results,            \* validate: the result objects produced so far
    dirs,               \* validate --all: the enumeration still to be visited
    exitCode            \* validate: the process exit code (-1 before exit)

vars == <<decisionsDirExists, fs, created, last, pc, local, writer,
          record, schemaFile, results, dirs, exitCode>>

----------------------------------------------------------------------------
(* Characters and strings *)

Digits == <<"0", "1", "2", "3", "4", "5", "6", "7", "8", "9">>

UpperChars == <<"A", "B", "C", "D", "E", "F", "G", "H", "I", "J", "K", "L", "M",
                "N", "O", "P", "Q", "R", "S", "T", "U", "V", "W", "X", "Y", "Z">>

LowerChars == <<"a", "b", "c", "d", "e", "f", "g", "h", "i", "j", "k", "l", "m",
                "n", "o", "p", "q", "r", "s", "t", "u", "v", "w", "x", "y", "z">>

\* the characters \s matches, among those the model's names use
Whitespace == {" ", "\t"}

DigitSet == {Digits[i] : i \in DOMAIN Digits}

DigitValue == [c \in DigitSet |-> (CHOOSE i \in DOMAIN Digits : Digits[i] = c) - 1]

LowerOf == [c \in {UpperChars[i] : i \in DOMAIN UpperChars} |->
               LowerChars[CHOOSE k \in DOMAIN UpperChars : UpperChars[k] = c]]

UpperOf == [c \in {LowerChars[i] : i \in DOMAIN LowerChars} |->
               UpperChars[CHOOSE k \in DOMAIN LowerChars : LowerChars[k] = c]]

IsDigit(c) == c \in DigitSet

DigitVal(c) == DigitValue[c]

IsUpper(c) == c \in DOMAIN LowerOf

IsLower(c) == c \in DOMAIN UpperOf

toLowerCase(s) == [i \in 1..Len(s) |-> IF IsUpper(s[i]) THEN LowerOf[s[i]] ELSE s[i]]

toUpperCase(s) == [i \in 1..Len(s) |-> IF IsLower(s[i]) THEN UpperOf[s[i]] ELSE s[i]]

\* String.prototype.replace(new RegExp(search, 'g'), replace) for a search
\* string without regular-expression metacharacters: leftmost,
\* non-overlapping occurrences, the inserted text is not scanned again
RECURSIVE ReplaceAll(_, _, _)
ReplaceAll(text, search, replace) ==
    LET n == Len(search)
        found == {i \in 1..(Len(text) - n + 1) :
                     text[i] = search[1] /\ SubSeq(text, i, i + n - 1) = search}
    IN  IF n = 0 \/ found = {} THEN text
        ELSE LET i == CHOOSE k \in found : \A j \in found : k <= j
             IN  SubSeq(text, 1, i - 1) \o replace
                 \o ReplaceAll(SubSeq(text, i + n, Len(text)), search, replace)

\* parseInt(digits, 10) and $((10#digits)) on a non-empty run of digits
RECURSIVE parseInt(_)
parseInt(ds) ==
    IF ds = <<>> THEN 0
    ELSE parseInt(SubSeq(ds, 1, Len(ds) - 1)) * 10 + DigitVal(ds[Len(ds)])

\* Number.prototype.toString() of a non-negative integer
RECURSIVE toString(_)
toString(n) ==
    IF n < 10 THEN <<Digits[n + 1]>>
    ELSE toString(n \div 10) \o <<Digits[(n % 10) + 1]>>

\* String.prototype.padStart(width, c)
padStart(s, width, c) ==
    IF Len(s) >= width THEN s
    ELSE [i \in 1..(width - Len(s)) |-> c] \o s

\* the width of the zero padding of a sequence number
PadWidth == 3

----------------------------------------------------------------------------
(* The decisions directory *)

TEMPLATE == <<"T", "E", "M", "P", "L", "A", "T", "E">>

NoText == [present |-> FALSE, text |-> <<>>]

TextFile(t) == [present |-> TRUE, text |-> t]

\* an entry of provenance/decisions: a directory with the four documents of a
\* record, or a regular file
Dir(json, prov, c2pa, md) ==
    [kind |-> "dir", json |-> json, prov |-> prov, c2pa |-> c2pa, md |-> md]

NoJson == [present |-> FALSE, parses |-> FALSE, data |-> [t |-> "undefined"]]

RegularFile == [kind |-> "file", json |-> NoJson, prov |-> NoText, c2pa |-> NoText, md |-> NoText]

EmptyDir == Dir(NoJson, NoText, NoText, NoText)

isDirectory(entry) == entry.kind = "dir"

\* fs.existsSync(path.join(DECISIONS_DIR, name))
existsSync(entries, name) == name \in DOMAIN entries

----------------------------------------------------------------------------
(* JSON values, as JSON.parse returns them *)

Undefined == [t |-> "undefined"]

JNull == [t |-> "null"]

JStr(s) == [t |-> "string", s |-> s]

JNum(n) == [t |-> "number", n |-> n]

JArr(items) == [t |-> "array", items |-> items]

JObj(f) == [t |-> "object", f |-> f]

\* v.key, for a v that is neither null nor undefined
Get(v, key) ==
    IF v.t = "object" /\ key \in DOMAIN v.f THEN v.f[key] ELSE Undefined

\* v.key = value, for an object v
Put(v, key, value) ==
    JObj([k \in DOMAIN v.f \cup {key} |-> IF k = key THEN value ELSE v.f[k]])

\* reading or writing a property of v throws a TypeError
NoProperties(v) == v.t \in {"undefined", "null"}

\* a decision.json file: absent, not parseable, or the value it parses to
JsonFile(data) == [present |-> TRUE, parses |-> TRUE, data |-> data]

CorruptJson == [present |-> TRUE, parses |-> FALSE, data |-> Undefined]

----------------------------------------------------------------------------
(* Identifier allocation: getNextNumber (new-decision.js) and
   get_next_number (new-decision.sh) *)

\* the length of the longest run of digits a name starts with
DigitRun(name) ==
    CHOOSE k \in 0..Len(name) :
        /\ \A i \in 1..k : IsDigit(name[i])
        /\ k = Len(name) \/ ~IsDigit(name[k + 1])

\* matchNumber without the hyphen of the pattern: /^(\d+)/
matchNumberDigitsOnly(name) ==
    LET k == DigitRun(name)
    IN  IF k >= 1 THEN SubSeq(name, 1, k) ELSE <<>>

\* name.match(/^(\d+)-/): the captured digits, <<>> when there is no match
matchNumber(name) ==
    LET k == DigitRun(name)
    IN  IF k >= 1 /\ k < Len(name) /\ name[k + 1] = "-" THEN SubSeq(name, 1, k) ELSE <<>>

\* scanDirs with the comparison turned around: it keeps the least number
RECURSIVE scanDirsLeast(_, _, _)
scanDirsLeast(names, entries, maxNum) ==
    IF names = {} THEN maxNum
    ELSE LET d == CHOOSE n \in names : TRUE
             match == matchNumber(d)
             num == parseInt(match)
         IN  scanDirsLeast(names \ {d}, entries,
                           IF isDirectory(entries[d]) /\ match # <<>>
                              /\ (num < maxNum \/ maxNum = 0)
                           THEN num ELSE maxNum)

\* the loop over the directory entries, in the order CHOOSE fixes
RECURSIVE scanDirs(_, _, _)
scanDirs(names, entries, maxNum) ==
    IF names = {} THEN maxNum
    ELSE LET d == CHOOSE n \in names : TRUE
             match == matchNumber(d)
             num == parseInt(match)
         IN  scanDirs(names \ {d}, entries,
                      IF isDirectory(entries[d]) /\ match # <<>> /\ num > maxNum
                      THEN num ELSE maxNum)

\* getNextNumber without the increment
getNextNumberSame(exists, entries) ==
    IF ~exists THEN <<"0", "0", "1">>
    ELSE padStart(toString(scanDirs(DOMAIN entries, entries, 0)), PadWidth, "0")

getNextNumber(exists, entries) ==
    IF ~exists THEN <<"0", "0", "1">>
    ELSE padStart(toString(scanDirs(DOMAIN entries, entries, 0) + 1), PadWidth, "0")

\* printf "%03d"
printf03d(n) ==
    IF n < 10 THEN <<"0", "0">> \o toString(n)
    ELSE IF n < 100 THEN <<"0">> \o toString(n)
    ELSE toString(n)

\* without the directory the glob stays unexpanded and the loop finds no directory
get_next_number(exists, entries) ==
    printf03d((IF exists THEN scanDirs(DOMAIN entries, entries, 0) ELSE 0) + 1)

----------------------------------------------------------------------------
(* Slug and title *)

\* .replace(/\s+/g, '-')
RECURSIVE replaceWhitespaceRuns(_)
replaceWhitespaceRuns(s) ==
    IF s = <<>> THEN <<>>
    ELSE IF Head(s) \in Whitespace
         THEN LET n == CHOOSE k \in 1..Len(s) :
                          /\ \A i \in 1..k : s[i] \in Whitespace
                          /\ k = Len(s) \/ s[k + 1] \notin Whitespace
              IN  <<"-">> \o replaceWhitespaceRuns(SubSeq(s, n + 1, Len(s)))
         ELSE <<Head(s)>> \o replaceWhitespaceRuns(Tail(s))

IsSlugChar(c) == IsLower(c) \/ IsDigit(c) \/ c = "-"

\* sanitizeName with .replace(/\s/g, '-'): one hyphen for each whitespace character
sanitizeNameEachSpace(name) ==
    SelectSeq([i \in 1..Len(name) |->
                  IF name[i] \in Whitespace THEN "-" ELSE toLowerCase(name)[i]],
              IsSlugChar)

sanitizeName(name) ==
    SelectSeq(replaceWhitespaceRuns(toLowerCase(name)), IsSlugChar)

\* str.split(sep), sep one character
RECURSIVE split(_, _)
split(str, sep) ==
    IF \A i \in 1..Len(str) : str[i] # sep THEN <<str>>
    ELSE LET k == CHOOSE i \in 1..Len(str) :
                      str[i] = sep /\ \A j \in 1..(i - 1) : str[j] # sep
         IN  <<SubSeq(str, 1, k - 1)>> \o split(SubSeq(str, k + 1, Len(str)), sep)

\* words.join(sep)
RECURSIVE join(_, _)
join(words, sep) ==
    IF Len(words) = 0 THEN <<>>
    ELSE IF Len(words) = 1 THEN words[1]
    ELSE words[1] \o sep \o join(Tail(words), sep)

capitalize(word) ==
    IF word = <<>> THEN <<>> ELSE toUpperCase(<<word[1]>>) \o Tail(word)

titleCase(str) ==
    LET words == split(str, "-")
    IN  join([i \in 1..Len(words) |-> capitalize(words[i])], <<" ">>)

----------------------------------------------------------------------------
(* Template materialisation: createDecision of new-decision.js *)

TemplateId == <<"t", "e", "m", "p", "l", "a", "t", "e", "-", "e", "x", "a", "m", "p", "l", "e", "-", "d", "e", "c", "i", "s", "i", "o", "n">>

TemplateTimestamp == <<"2", "0", "2", "6", "-", "0", "2", "-", "0", "6", "T", "1", "0", ":", "0", "0", ":", "0", "0", "Z">>

TemplateDate == <<"2", "0", "2", "6", "-", "0", "2", "-", "0", "6">>

DatePlaceholder == <<"Y", "Y", "Y", "Y", "-", "M", "M", "-", "D", "D">>

DecisionPrefix == <<"d", "e", "c", "i", "s", "i", "o", "n", ":">>

\* now.toISOString().split('T')[0]
currentDateOf(iso) == split(iso, "T")[1]

\* the replacements of one updateFile call, applied in the listed order
RECURSIVE applyReplacements(_, _)
applyReplacements(content, replacements) ==
    IF replacements = <<>> THEN content
    ELSE applyReplacements(ReplaceAll(content, replacements[1][1], replacements[1][2]),
                           Tail(replacements))

updateFile(file, replacements) ==
    IF ~file.present THEN file
    ELSE TextFile(applyReplacements(file.text, replacements))

\* patchDecisionJson writing the slug, without the number, as the id
patchDecisionJsonSlugId(file, fullName, decisionName, currentDate, currentDateTime) ==
    IF ~file.present \/ ~file.parses THEN file
    ELSE IF file.data.t # "object" THEN file
    ELSE LET d1 == Put(file.data, "id", JStr(decisionName))
             d2 == Put(d1, "title", JStr(titleCase(decisionName)))
             d3 == Put(d2, "date", JStr(currentDate))
             d4 == Put(d3, "lastUpdated", JStr(currentDate))
             prov == Get(d4, "provenanceCode")
         IN  IF NoProperties(prov) THEN file ELSE JsonFile(d4)

\* the try block that patches decision.json: any exception leaves the file as
\* it was copied, since the write is its last statement
patchDecisionJson(file, fullName, decisionName, currentDate, currentDateTime) ==
    IF ~file.present \/ ~file.parses THEN file
    ELSE IF file.data.t # "object" THEN file
    ELSE LET d1 == Put(file.data, "id", JStr(fullName))
             d2 == Put(d1, "title", JStr(titleCase(decisionName)))
             d3 == Put(d2, "date", JStr(currentDate))
             d4 == Put(d3, "lastUpdated", JStr(currentDate))
             prov == Get(d4, "provenanceCode")
         IN  IF NoProperties(prov) THEN file
             ELSE IF prov.t = "object"
                  THEN JsonFile(Put(d4, "provenanceCode",
                           Put(Put(prov, "created", JStr(currentDateTime)),
                               "modified", JStr(currentDateTime))))
                  ELSE JsonFile(d4)

\* the try block of the decision.json patch throws before its write
patchThrows(file) ==
    \/ ~file.parses
    \/ file.data.t # "object"
    \/ NoProperties(Get(file.data, "provenanceCode"))

\* console.warn of the catch block, reached when decision.json was copied
patchWarnings(file) ==
    IF file.present /\ patchThrows(file)
    THEN <<"Could not update decision.json">> ELSE <<>>

\* copyDirectory(TEMPLATE_DIR, decisionPath) over the four documents of a
\* record: the destination is made when missing, every file of the source
\* overwrites the file of the same name
copyDirectory(entries, src, dest) ==
    LET base == IF existsSync(entries, dest) THEN entries[dest] ELSE EmptyDir
        s == entries[src]
        copy == Dir(IF s.json.present THEN s.json ELSE base.json,
                    IF s.prov.present THEN s.prov ELSE base.prov,
                    IF s.c2pa.present THEN s.c2pa ELSE base.c2pa,
                    IF s.md.present THEN s.md ELSE base.md)
    IN  IF ~isDirectory(s)
        THEN [threw |-> TRUE, entries |-> (dest :> base) @@ entries]
        ELSE IF ~isDirectory(base)
        THEN [threw |-> TRUE, entries |-> entries]
        ELSE [threw |-> FALSE, entries |-> (dest :> copy) @@ entries]

provReplacements(fullName, currentDateTime) ==
    << <<DecisionPrefix \o TemplateId, DecisionPrefix \o fullName>>,
       <<TemplateTimestamp, currentDateTime>> >>

c2paReplacements(fullName, currentDate, currentDateTime) ==
    << <<TemplateId, fullName>>,
       <<TemplateTimestamp, currentDateTime>>,
       <<TemplateDate, currentDate>> >>

mdReplacements(currentDate) == << <<DatePlaceholder, currentDate>> >>

\* the substitutions that follow the copy
substitute(entry, fullName, decisionName, iso) ==
    Dir(patchDecisionJson(entry.json, fullName, decisionName, currentDateOf(iso), iso),
        updateFile(entry.prov, provReplacements(fullName, iso)),
        updateFile(entry.c2pa, c2paReplacements(fullName, currentDateOf(iso), iso)),
        updateFile(entry.md, mdReplacements(currentDateOf(iso))))

\* createDecision(args[0]) run to its exit: the exit code, the message that
\* ends a failed run, the target name and the directory it leaves
createDecision(exists, entries, name, iso) ==
    LET decisionName == sanitizeName(name)
        decisionNumber == getNextNumber(exists, entries)
        fullName == decisionNumber \o <<"-">> \o decisionName
    IN  IF decisionName = <<>>
        THEN [exit |-> 1, msg |-> "Invalid decision name", target |-> <<>>,
              number |-> <<>>, warnings |-> <<>>, exists |-> exists, entries |-> entries]
        ELSE IF exists /\ existsSync(entries, fullName)
        THEN [exit |-> 1, msg |-> "Decision already exists", target |-> fullName,
              number |-> decisionNumber, warnings |-> <<>>,
              exists |-> exists, entries |-> entries]
        ELSE IF ~(exists /\ existsSync(entries, TEMPLATE))
        THEN [exit |-> 1, msg |-> "Template directory not found", target |-> fullName,
              number |-> decisionNumber, warnings |-> <<>>,
              exists |-> exists, entries |-> entries]
        ELSE LET copied == copyDirectory(entries, TEMPLATE, fullName)
             IN  IF copied.threw
                 THEN [exit |-> 1, msg |-> "uncaught exception", target |-> fullName,
                       number |-> decisionNumber, warnings |-> <<>>,
                       exists |-> exists, entries |-> copied.entries]
                 ELSE [exit |-> 0, msg |-> "Decision record created successfully!",
                       target |-> fullName, number |-> decisionNumber,
                       warnings |-> patchWarnings(copied.entries[fullName].json),
                       exists |-> exists,
                       entries |-> [copied.entries EXCEPT ![fullName] =
                                       substitute(@, fullName, decisionName, iso)]]

----------------------------------------------------------------------------
(* Sequential runs of create on a decisions directory (specification Spec) *)

\* the directories the tool makes in one behaviour
MaxCreated == 2

\* the documents of the TEMPLATE directory
TemplateData ==
    JObj([id |-> JStr(TemplateId),
          title |-> JStr(<<"D", "e", "c", "i", "s", "i", "o", "n", " ", "T", "i", "t", "l", "e">>),
          status |-> JStr(<<"p", "r", "o", "p", "o", "s", "e", "d">>),
          date |-> JStr(TemplateDate),
          provenanceCode |-> JObj([created |-> JStr(TemplateTimestamp),
                                   modified |-> JStr(TemplateTimestamp)])])

TemplateProv == DecisionPrefix \o TemplateId \o <<" ">> \o TemplateTimestamp

TemplateC2pa == TemplateId \o <<" ">> \o TemplateTimestamp \o <<" ">> \o TemplateDate

TemplateMd == DatePlaceholder

FullTemplate ==
    Dir(JsonFile(TemplateData), TextFile(TemplateProv), TextFile(TemplateC2pa),
        TextFile(TemplateMd))

\* a TEMPLATE whose decision.json does not parse
CorruptTemplate ==
    Dir(CorruptJson, TextFile(TemplateProv), TextFile(TemplateC2pa), TextFile(TemplateMd))

UsePostgresql == <<"U", "s", "e", " ", "P", "o", "s", "t", "g", "r", "e", "s", "q", "l">>

use_postgresql == <<"u", "s", "e", "-", "p", "o", "s", "t", "g", "r", "e", "s", "q", "l">>

\* the decision names given on the command line
Names == {UsePostgresql, use_postgresql, <<"!">>}

\* the instants at which a create runs, as toISOString() prints them
Clock == {<<"2", "0", "2", "6", "-", "1", "1", "-", "0", "2", "T", "0", "9", ":", "3", "0", ":", "0", "0", ".", "0", "0", "0", "Z">>, <<"2", "0", "2", "6", "-", "0", "2", "-", "0", "6", "T", "1", "0", ":", "0", "0", ":", "0", "0", ".", "0", "0", "0", "Z">>}

\* record directories made by hand before the tool runs, a directory that is
\* no record, and a regular file with a record's name
HandMade ==
    (<<"0", "0", "1", "-", "a">> :> EmptyDir) @@ (<<"0", "0", "2", "-", "b">> :> EmptyDir) @@ (<<"0", "0", "7", "-", "c">> :> EmptyDir)
    @@ (<<"n", "o", "t", "e", "s">> :> EmptyDir) @@ (<<"0", "0", "1", "-", "u", "s", "e", "-", "p", "o", "s", "t", "g", "r", "e", "s", "q", "l">> :> RegularFile)

\* the entries provenance/decisions starts with: only TEMPLATE, TEMPLATE and
\* hand-made entries, a TEMPLATE that does not parse, no TEMPLATE, a regular
\* file named TEMPLATE
Listings ==
    { [tpl |-> FullTemplate, made |-> {}],
      [tpl |-> FullTemplate, made |-> {<<"0", "0", "1", "-", "a">>}],
      [tpl |-> FullTemplate, made |-> {<<"0", "0", "2", "-", "b">>, <<"0", "0", "7", "-", "c">>, <<"n", "o", "t", "e", "s">>}],
      [tpl |-> FullTemplate, made |-> {<<"0", "0", "1", "-", "u", "s", "e", "-", "p", "o", "s", "t", "g", "r", "e", "s", "q", "l">>}],
      [tpl |-> CorruptTemplate, made |-> {}],
      [tpl |-> EmptyDir, made |-> {<<"0", "0", "1", "-", "a">>}],
      [tpl |-> RegularFile, made |-> {}] }

Restrict(f, S) == [x \in S |-> f[x]]

Last(s) == s[Len(s)]

NoRun == [p \in {} |-> 0]

Idle ==
    /\ pc = NoRun /\ local = NoRun /\ writer = NoRun
    /\ record = EmptyDir /\ schemaFile = NoJson
    /\ results = <<>> /\ dirs = {} /\ exitCode = -1

\* no invocation has run yet
NoInvocation ==
    [op |-> "none", arg |-> <<>>, iso |-> <<>>, exit |-> 0, msg |-> "",
     target |-> <<>>, number |-> <<>>, warnings |-> <<>>, wrote |-> FALSE]

Init ==
    /\ decisionsDirExists \in BOOLEAN
    /\ \E l \in Listings :
          fs = IF ~decisionsDirExists THEN NoRun
               ELSE IF l.tpl = EmptyDir THEN Restrict(HandMade, l.made)
               ELSE (TEMPLATE :> l.tpl) @@ Restrict(HandMade, l.made)
    /\ created = <<>>
    /\ last = NoInvocation
    /\ Idle

\* node tools/new-decision.js <name>; a run that fails has not read the clock
Create(name, iso) ==
    /\ Len(created) < MaxCreated
    /\ LET run == createDecision(decisionsDirExists, fs, name, iso)
       IN  /\ fs' = run.entries
           /\ decisionsDirExists' = run.exists
           /\ last' = [op |-> "create", arg |-> name,
                       iso |-> IF run.exit = 0 THEN iso ELSE <<>>,
                       exit |-> run.exit, msg |-> run.msg, target |-> run.target,
                       number |-> run.number, warnings |-> run.warnings,
                               wrote |-> run.entries # fs]
           /\ created' = IF run.entries # fs
                         THEN Append(created, [number |-> run.number, target |-> run.target])
                         ELSE created
    /\ UNCHANGED <<pc, local, writer, record, schemaFile, results, dirs, exitCode>>

\* a record directory is removed by hand
Remove(d) ==
    /\ d \in DOMAIN fs /\ isDirectory(fs[d]) /\ matchNumber(d) # <<>>
    /\ fs' = Restrict(fs, DOMAIN fs \ {d})
    /\ last' = [op |-> "rm", arg |-> d, iso |-> <<>>, exit |-> 0, msg |-> "",
                target |-> d, number |-> <<>>, warnings |-> <<>>, wrote |-> TRUE]
    /\ UNCHANGED <<decisionsDirExists, created, pc, local, writer, record, schemaFile,
                   results, dirs, exitCode>>

Next ==
    \/ \E name \in Names, iso \in Clock : Create(name, iso)
    \/ \E d \in DOMAIN fs : Remove(d)

Spec == Init /\ [][Next]_vars

----------------------------------------------------------------------------
(* The allocator applied to a directory listing (specification SpecAlloc) *)

\* entries a decisions directory may hold, each with the sequence number its
\* name stands for (-1: none)
AllocPool ==
    (<<"0", "0", "1", "-", "a">> :> [entry |-> EmptyDir, number |-> 1])
    @@ (<<"0", "0", "2", "-", "b">> :> [entry |-> EmptyDir, number |-> 2])
    @@ (<<"0", "0", "7", "-", "c">> :> [entry |-> EmptyDir, number |-> 7])
    @@ (<<"0", "0", "1", "2", "-", "w">> :> [entry |-> EmptyDir, number |-> 12])
    @@ (<<"9", "9", "9", "-", "y">> :> [entry |-> EmptyDir, number |-> 999])
    @@ (TEMPLATE :> [entry |-> FullTemplate, number |-> -1])
    @@ (<<"n", "o", "t", "e", "s">> :> [entry |-> EmptyDir, number |-> -1])
    @@ (<<"7", "u", "p">> :> [entry |-> EmptyDir, number |-> -1])
    @@ (<<"5", "0", "0", "-", "f">> :> [entry |-> RegularFile, number |-> -1])

InitAlloc ==
    /\ decisionsDirExists \in BOOLEAN
    /\ \E S \in SUBSET DOMAIN AllocPool :
          fs = IF decisionsDirExists THEN [n \in S |-> AllocPool[n].entry] ELSE NoRun
    /\ created = <<>>
    /\ last = NoInvocation
    /\ Idle

\* getNextNumber() of new-decision.js on the listing
AllocateJs ==
    /\ last = NoInvocation
    /\ last' = [NoInvocation EXCEPT !.op = "getNextNumber",
                                    !.number = getNextNumber(decisionsDirExists, fs)]
    /\ UNCHANGED <<decisionsDirExists, fs, created, pc, local, writer, record,
                   schemaFile, results, dirs, exitCode>>

\* get_next_number of new-decision.sh on the listing
AllocateSh ==
    /\ last = NoInvocation
    /\ last' = [NoInvocation EXCEPT !.op = "get_next_number",
                                    !.number = get_next_number(decisionsDirExists, fs)]
    /\ UNCHANGED <<decisionsDirExists, fs, created, pc, local, writer, record,
                   schemaFile, results, dirs, exitCode>>

NextAlloc == AllocateJs \/ AllocateSh

SpecAlloc == InitAlloc /\ [][NextAlloc]_vars

\* the identifier that follows each greatest number of the pool
ExpectedNext ==
    (0 :> <<"0", "0", "1">>) @@ (1 :> <<"0", "0", "2">>) @@ (2 :> <<"0", "0", "3">>)
    @@ (7 :> <<"0", "0", "8">>) @@ (12 :> <<"0", "1", "3">>)
    @@ (999 :> <<"1", "0", "0", "0">>)

Greatest(S) == CHOOSE m \in S : \A n \in S : n <= m

\* C2: both allocators return 1 + the greatest number of the directory names
\* matching ^(\d+)- (0 when there is none), zero-padded to width 3; names
\* that do not match, TEMPLATE among them, and regular files do not count
C2_NextNumber ==
    last.op \in {"getNextNumber", "get_next_number"}
        => last.number = ExpectedNext[Greatest({AllocPool[n].number : n \in DOMAIN fs} \cup {0})]

\* an allocator has answered "008" on 001-a, 002-b, 007-c next to TEMPLATE
\* and entries that are no records
C2_Witness ==
    /\ last.op \in {"getNextNumber", "get_next_number"}
    /\ DOMAIN fs = {<<"0", "0", "1", "-", "a">>, <<"0", "0", "2", "-", "b">>, <<"0", "0", "7", "-", "c">>, TEMPLATE, <<"n", "o", "t", "e", "s">>, <<"7", "u", "p">>, <<"5", "0", "0", "-", "f">>}
    /\ last.number = <<"0", "0", "8">>

----------------------------------------------------------------------------
(* Two concurrent runs of node tools/new-decision.js <name> (specification
   SpecConc): createDecision one file-system call at a time *)

Procs == {1, 2}

Other(p) == CHOOSE q \in Procs : q # p

\* the names the second invocation is given; the first is given "Use Postgresql"
ConcNames == {UsePostgresql, use_postgresql, <<"b">>}

\* the files readdirSync(TEMPLATE_DIR) lists, in the order it lists them
TemplateFiles == <<"c2pa", "json", "md", "prov">>

\* the files updateFile is called on, in the order of the calls
UpdatedFiles == <<"prov", "c2pa", "md">>

Replacements(file, fullName, iso) ==
    IF file = "prov" THEN provReplacements(fullName, iso)
    ELSE IF file = "c2pa" THEN c2paReplacements(fullName, currentDateOf(iso), iso)
    ELSE mdReplacements(currentDateOf(iso))

InitConc ==
    /\ decisionsDirExists = TRUE
    /\ fs = (TEMPLATE :> FullTemplate)
    /\ created = <<>>
    /\ last = NoInvocation
    /\ \E name \in ConcNames, iso \in Clock :
          local = [p \in Procs |->
                      [name |-> IF p = 1 THEN UsePostgresql ELSE name,
                       iso |-> IF p = 1 THEN CHOOSE i \in Clock : i[6] = "1" ELSE iso,
                       decisionName |-> <<>>, target |-> <<>>, todo |-> <<>>,
                       pending |-> <<>>, exit |-> -1, msg |-> "",
                       writes |-> 0, copies |-> 0]]
    /\ pc = [p \in Procs |-> "scan"]
    /\ writer = NoRun
    /\ record = EmptyDir /\ schemaFile = NoJson
    /\ results = <<>> /\ dirs = {} /\ exitCode = -1

Exit(p, code, msg) ==
    /\ pc' = [pc EXCEPT ![p] = "exit"]
    /\ local' = [local EXCEPT ![p].exit = code, ![p].msg = msg]

\* a write of invocation p to a file of its target directory
WriteFile(p, file, content) ==
    LET key == <<local[p].target, file>>
    IN  /\ fs' = [fs EXCEPT ![local[p].target][file] = content]
        /\ writer' = IF key \in DOMAIN writer
                     THEN [writer EXCEPT ![key] = @ \cup {p}]
                     ELSE (key :> {p}) @@ writer

Unused == <<decisionsDirExists, created, last, record, schemaFile, results, dirs, exitCode>>

\* sanitizeName and getNextNumber: the directory is listed
Scan(p) ==
    /\ pc[p] = "scan"
    /\ LET decisionName == sanitizeName(local[p].name)
           fullName == getNextNumber(decisionsDirExists, fs) \o <<"-">> \o decisionName
       IN  IF decisionName = <<>>
           THEN Exit(p, 1, "Invalid decision name")
           ELSE /\ pc' = [pc EXCEPT ![p] = "exists"]
                /\ local' = [local EXCEPT ![p].decisionName = decisionName,
                                          ![p].target = fullName]
    /\ UNCHANGED <<fs, writer>> /\ UNCHANGED Unused

\* the existence check made only after the destination directory was made
CheckExistsAfterMkdir(p) ==
    /\ pc[p] = "exists"
    /\ fs' = IF existsSync(fs, local[p].target) THEN fs
             ELSE (local[p].target :> EmptyDir) @@ fs
    /\ pc' = [pc EXCEPT ![p] = "exit"]
    /\ local' = [local EXCEPT ![p].exit = 1, ![p].msg = "Decision already exists",
                              ![p].writes = @ + 1]
    /\ UNCHANGED writer /\ UNCHANGED Unused

\* if (fs.existsSync(decisionPath)) ... process.exit(1)
CheckExists(p) ==
    /\ pc[p] = "exists"
    /\ IF existsSync(fs, local[p].target)
       THEN Exit(p, 1, "Decision already exists")
       ELSE pc' = [pc EXCEPT ![p] = "template"] /\ UNCHANGED local
    /\ UNCHANGED <<fs, writer>> /\ UNCHANGED Unused

\* if (!fs.existsSync(TEMPLATE_DIR)) ... process.exit(1)
CheckTemplate(p) ==
    /\ pc[p] = "template"
    /\ IF ~existsSync(fs, TEMPLATE)
       THEN Exit(p, 1, "Template directory not found")
       ELSE pc' = [pc EXCEPT ![p] = "mkdir"] /\ UNCHANGED local
    /\ UNCHANGED <<fs, writer>> /\ UNCHANGED Unused

\* copyDirectory, up to its loop: the destination is made unless it exists,
\* then the template is listed
Mkdir(p) ==
    /\ pc[p] = "mkdir"
    /\ LET made == ~existsSync(fs, local[p].target)
           todo == SelectSeq(TemplateFiles, LAMBDA f : fs[TEMPLATE][f].present)
       IN  /\ fs' = IF made THEN (local[p].target :> EmptyDir) @@ fs ELSE fs
           /\ local' = [local EXCEPT ![p].todo = todo,
                                     ![p].writes = @ + (IF made THEN 1 ELSE 0)]
           /\ pc' = [pc EXCEPT ![p] = IF todo = <<>> THEN "patch" ELSE "copy"]
    /\ UNCHANGED writer /\ UNCHANGED Unused

\* fs.copyFileSync(srcPath, destPath) of the next file of the template
Copy(p) ==
    /\ pc[p] = "copy"
    /\ WriteFile(p, Head(local[p].todo), fs[TEMPLATE][Head(local[p].todo)])
    /\ local' = [local EXCEPT ![p].todo = Tail(@), ![p].writes = @ + 1,
                              ![p].copies = @ + 1]
    /\ pc' = [pc EXCEPT ![p] = IF Tail(local[p].todo) = <<>> THEN "patch" ELSE "copy"]
    /\ UNCHANGED Unused

\* the decision.json patch up to its write: the file is read and parsed and
\* the fields are set
PatchRead(p) ==
    /\ pc[p] = "patch"
    /\ LET file == fs[local[p].target].json
       IN  IF ~file.present \/ patchThrows(file)
           THEN /\ pc' = [pc EXCEPT ![p] = "read"]
                /\ local' = [local EXCEPT ![p].todo = UpdatedFiles]
           ELSE /\ pc' = [pc EXCEPT ![p] = "patchWrite"]
                /\ local' = [local EXCEPT ![p].pending =
                                patchDecisionJson(file, local[p].target,
                                    local[p].decisionName,
                                    currentDateOf(local[p].iso), local[p].iso)]
    /\ UNCHANGED <<fs, writer>> /\ UNCHANGED Unused

\* fs.writeFileSync(decisionJsonPath, JSON.stringify(data, null, 2) + '\n')
PatchWrite(p) ==
    /\ pc[p] = "patchWrite"
    /\ WriteFile(p, "json", local[p].pending)
    /\ local' = [local EXCEPT ![p].todo = UpdatedFiles, ![p].pending = <<>>,
                              ![p].writes = @ + 1]
    /\ pc' = [pc EXCEPT ![p] = "read"]
    /\ UNCHANGED Unused

\* updateFile up to its write: existsSync, readFileSync and the replacements;
\* after the last file the run ends with exit code 0
UpdateRead(p) ==
    /\ pc[p] = "read"
    /\ IF local[p].todo = <<>>
       THEN Exit(p, 0, "Decision record created successfully!")
       ELSE LET file == fs[local[p].target][Head(local[p].todo)]
            IN  IF ~file.present
                THEN /\ local' = [local EXCEPT ![p].todo = Tail(@)]
                     /\ UNCHANGED pc
                ELSE /\ local' = [local EXCEPT ![p].pending =
                                     updateFile(file, Replacements(Head(local[p].todo),
                                                    local[p].target, local[p].iso))]
                     /\ pc' = [pc EXCEPT ![p] = "write"]
    /\ UNCHANGED <<fs, writer>> /\ UNCHANGED Unused

\* fs.writeFileSync(filePath, content, 'utf8') of updateFile
UpdateWrite(p) ==
    /\ pc[p] = "write"
    /\ WriteFile(p, Head(local[p].todo), local[p].pending)
    /\ local' = [local EXCEPT ![p].todo = Tail(@), ![p].pending = <<>>,
                              ![p].writes = @ + 1]
    /\ pc' = [pc EXCEPT ![p] = "read"]
    /\ UNCHANGED Unused

NextConc ==
    \E p \in Procs :
        \/ Scan(p) \/ CheckExists(p) \/ CheckTemplate(p) \/ Mkdir(p) \/ Copy(p)
        \/ PatchRead(p) \/ PatchWrite(p) \/ UpdateRead(p) \/ UpdateWrite(p)

SpecConc == InitConc /\ [][NextConc]_vars

----------------------------------------------------------------------------
(* validateSchema (validate-decision.js) *)

\* the text of a character sequence, for interpolation in a message
RECURSIVE Text(_)
Text(s) == IF s = <<>> THEN "" ELSE Head(s) \o Text(Tail(s))

\* !v
Not(v) ==
    \/ v.t \in {"undefined", "null"}
    \/ v.t = "string" /\ v.s = <<>>
    \/ v.t = "number" /\ v.n = 0
    \/ v.t = "boolean" /\ ~v.b

\* v[key], for a v that is neither null nor undefined
Prop(v, key) ==
    IF key = "length" /\ v.t = "string" THEN JNum(Len(v.s))
    ELSE IF key = "length" /\ v.t = "array" THEN JNum(Len(v.items))
    ELSE Get(v, key)

\* a < n, for the lengths of the model: a number or undefined
LessThan(a, n) == a.t = "number" /\ a.n < n

\* a === n
StrictEquals(a, n) == a.t = "number" /\ a.n = n

\* (key in data) throws a TypeError
InThrows(data) == data.t \notin {"object", "array"}

\* key in data
In(key, data) ==
    \/ data.t = "object" /\ key \in DOMAIN data.f
    \/ data.t = "array" /\ key = "length"

\* String(v), as Array.prototype.join renders an element
stringOf(v) ==
    CASE v.t = "string" -> Text(v.s)
      [] v.t = "number" -> Text(toString(v.n))
      [] v.t = "boolean" -> IF v.b THEN "true" ELSE "false"
      [] v.t = "object" -> "[object Object]"
      [] OTHER -> ""

\* words.join(sep), for texts
RECURSIVE joinText(_, _)
joinText(words, sep) ==
    IF Len(words) = 0 THEN ""
    ELSE IF Len(words) = 1 THEN words[1]
    ELSE words[1] \o sep \o joinText(Tail(words), sep)

\* list.includes(value): primitives compare by value, objects by identity
includes(list, value) ==
    /\ value.t \in {"string", "number", "boolean", "null"}
    /\ \E i \in 1..Len(list) : list[i].t = value.t /\ list[i] = value

\* A schema or a property schema as validateSchema reads it.  type holds the
\* type names (typeIsArray: written as an array), 0 and "" stand for an absent
\* minLength, maxLength, minItems and pattern, which the code does not tell
\* from 0 and "", and properties holds the entries in the order of the file.
EmptySchema ==
    [t |-> "schema", type |-> <<>>, typeIsArray |-> FALSE, hasEnum |-> FALSE,
     enum |-> <<>>, minLength |-> 0, maxLength |-> 0, pattern |-> "",
     minItems |-> 0, required |-> <<>>, properties |-> <<>>]

\* the patterns of the model: a numbered name, and one that does not compile
NumberedPattern == "^\\d+-"

BrokenPattern == "("

\* new RegExp(pattern) throws a SyntaxError
RegExpThrows(pattern) == pattern = BrokenPattern

\* new RegExp(pattern).test(value)
RegExpTest(pattern, value) ==
    IF pattern = NumberedPattern THEN matchNumber(value) # <<>> ELSE TRUE

Thrown(message) == [threw |-> TRUE, message |-> message, errors |-> <<>>]

Returned(errors) == [threw |-> FALSE, message |-> "", errors |-> errors]

\* errors.map(e => `${key}.${e}`)
prefixed(key, errors) == [i \in 1..Len(errors) |-> key \o "." \o errors[i]]

\* the concatenation of a sequence of sequences
RECURSIVE concat(_)
concat(seqs) == IF seqs = <<>> THEN <<>> ELSE Head(seqs) \o concat(Tail(seqs))

\* propSchema.type === name
typeIs(propSchema, name) == ~propSchema.typeIsArray /\ propSchema.type = <<name>>

\* the type check of a property
typeErrors(key, value, propSchema) ==
    IF (propSchema.type # <<>> \/ propSchema.typeIsArray)
       /\ ~(\E i \in 1..Len(propSchema.type) : propSchema.type[i] = value.t)
    THEN <<"Field " \o key \o ": expected type " \o joinText(propSchema.type, " or ")
              \o ", got " \o value.t>>
    ELSE <<>>

\* the enum check
enumErrors(key, value, propSchema) ==
    IF propSchema.hasEnum /\ ~includes(propSchema.enum, value)
    THEN <<"Field " \o key \o ": must be one of "
              \o joinText([i \in 1..Len(propSchema.enum) |-> stringOf(propSchema.enum[i])],
                          ", ")>>
    ELSE <<>>

\* the string checks apply
isString(value, propSchema) == typeIs(propSchema, "string") /\ value.t = "string"

minLengthErrors(key, value, propSchema) ==
    IF isString(value, propSchema) /\ propSchema.minLength # 0
       /\ Len(value.s) < propSchema.minLength
    THEN <<"Field " \o key \o ": minimum length is " \o Text(toString(propSchema.minLength))>>
    ELSE <<>>

maxLengthErrors(key, value, propSchema) ==
    IF isString(value, propSchema) /\ propSchema.maxLength # 0
       /\ Len(value.s) > propSchema.maxLength
    THEN <<"Field " \o key \o ": maximum length is " \o Text(toString(propSchema.maxLength))>>
    ELSE <<>>

\* new RegExp(propSchema.pattern) is reached and throws
patternThrows(value, propSchema) ==
    isString(value, propSchema) /\ propSchema.pattern # "" /\ RegExpThrows(propSchema.pattern)

patternErrors(key, value, propSchema) ==
    IF isString(value, propSchema) /\ propSchema.pattern # ""
       /\ ~RegExpTest(propSchema.pattern, value.s)
    THEN <<"Field " \o key \o ": does not match pattern " \o propSchema.pattern>>
    ELSE <<>>

\* the array checks
minItemsErrors(key, value, propSchema) ==
    IF typeIs(propSchema, "array") /\ value.t = "array" /\ propSchema.minItems # 0
       /\ Len(value.items) < propSchema.minItems
    THEN <<"Field " \o key \o ": minimum " \o Text(toString(propSchema.minItems))
              \o " items required">>
    ELSE <<>>

\* the recursive call on data[key] is reached
reachesNested(data, key, propSchema) ==
    /\ ~InThrows(data) /\ In(key, data)
    /\ ~NoProperties(propSchema) /\ propSchema.t = "schema"
    /\ typeIs(propSchema, "object")
    /\ Prop(data, key).t \in {"object", "array"}

\* the checks of a property that is in the data; nested is the outcome of the
\* recursive call, when it is reached
checkValue(key, value, propSchema, nested) ==
    IF patternThrows(value, propSchema) THEN Thrown("Invalid regular expression")
    ELSE IF nested.threw THEN nested
    ELSE Returned(typeErrors(key, value, propSchema) \o enumErrors(key, value, propSchema)
                  \o minLengthErrors(key, value, propSchema)
                  \o maxLengthErrors(key, value, propSchema)
                  \o patternErrors(key, value, propSchema)
                  \o minItemsErrors(key, value, propSchema)
                  \o prefixed(key, nested.errors))

\* the body of the loop over Object.entries(schema.properties)
checkProperty(data, key, propSchema, nested) ==
    IF InThrows(data) THEN Thrown("Cannot use 'in' operator")
    ELSE IF ~In(key, data) THEN Returned(<<>>)
    ELSE IF NoProperties(propSchema) THEN Thrown("Cannot read properties of null")
    ELSE IF propSchema.t # "schema" THEN Returned(<<>>)
    ELSE checkValue(key, Prop(data, key), propSchema, nested)

\* the check of the required fields
requiredErrors(data, required) ==
    LET missing == SelectSeq(required, LAMBDA field : ~In(field, data))
    IN  [i \in 1..Len(missing) |-> "Missing required field: " \o missing[i]]

\* the errors returned, or the first exception thrown in the loop
collect(required, checked) ==
    IF \E i \in 1..Len(checked) : checked[i].threw
    THEN checked[CHOOSE i \in 1..Len(checked) :
                     checked[i].threw /\ \A j \in 1..(i - 1) : ~checked[j].threw]
    ELSE Returned(required \o concat([i \in 1..Len(checked) |-> checked[i].errors]))

RECURSIVE validateSchema(_, _)
validateSchema(data, schema) ==
    IF NoProperties(schema) THEN Thrown("Cannot read properties of null")
    ELSE IF schema.t # "schema" THEN Returned(<<>>)
    ELSE IF schema.required # <<>> /\ InThrows(data) THEN Thrown("Cannot use 'in' operator")
    ELSE collect(requiredErrors(data, schema.required),
                 [i \in 1..Len(schema.properties) |->
                     checkProperty(data, schema.properties[i].key,
                                   schema.properties[i].schema,
                                   IF reachesNested(data, schema.properties[i].key,
                                                    schema.properties[i].schema)
                                   THEN validateSchema(Prop(data, schema.properties[i].key),
                                                       schema.properties[i].schema)
                                   ELSE Returned(<<>>))])

----------------------------------------------------------------------------
(* validateDecisionRecord (validate-decision.js).  A directory under validation
   holds decision.md as a text file and the three JSON documents as what
   JSON.parse makes of them. *)

requiredFiles == <<"decision.md", "decision.json">>

optionalFiles == <<"prov.jsonld", "c2pa.manifest.json">>

\* the document of a directory entry a file name stands for
FileOf(entry, file) ==
    CASE file = "decision.md" -> entry.md
      [] file = "decision.json" -> entry.json
      [] file = "prov.jsonld" -> entry.prov
      [] file = "c2pa.manifest.json" -> entry.c2pa

\* fs.existsSync(path.join(decisionPath, file))
fileExists(entry, file) == FileOf(entry, file).present

MinTitleLength == 5

MinProblemLength == 50

newResults(decisionName) ==
    [name |-> decisionName, valid |-> TRUE, errors |-> <<>>, warnings |-> <<>>,
     info |-> <<>>]

\* the body of the loop over requiredFiles
checkRequiredFile(r, entry, file, verbose) ==
    IF ~fileExists(entry, file)
    THEN [r EXCEPT !.errors = Append(@, "Missing required file: " \o file),
                   !.valid = FALSE]
    ELSE IF verbose THEN [r EXCEPT !.info = Append(@, "Found required file: " \o file)]
    ELSE r

\* the body of the loop over optionalFiles, a missing file made an error
checkOptionalFileAsError(r, entry, file, verbose) ==
    IF ~fileExists(entry, file)
    THEN [r EXCEPT !.errors = Append(@, "Missing optional file: " \o file),
                   !.valid = FALSE]
    ELSE IF verbose THEN [r EXCEPT !.info = Append(@, "Found optional file: " \o file)]
    ELSE r

\* the body of the loop over optionalFiles
checkOptionalFile(r, entry, file, verbose) ==
    IF ~fileExists(entry, file)
    THEN [r EXCEPT !.warnings = Append(@, "Missing optional file: " \o file)]
    ELSE IF verbose THEN [r EXCEPT !.info = Append(@, "Found optional file: " \o file)]
    ELSE r

\* what the schema step leaves; threw: an exception left it for the catch clause
Step(threw, message, r) == [threw |-> threw, message |-> message, r |-> r]

\* the outcome of validateSchema is recorded
recordSchemaErrors(r, schemaErrors, verbose) ==
    IF schemaErrors.threw THEN Step(TRUE, schemaErrors.message, r)
    ELSE IF Len(schemaErrors.errors) > 0
    THEN Step(FALSE, "", [r EXCEPT !.errors = @ \o schemaErrors.errors, !.valid = FALSE])
    ELSE IF verbose
    THEN Step(FALSE, "", [r EXCEPT !.info = Append(@, "Schema validation passed")])
    ELSE Step(FALSE, "", r)

\* the schema step, a missing schema file made an error
checkSchemaMissingIsError(r, decisionData, schema, verbose) ==
    IF ~schema.present
    THEN Step(FALSE, "",
              [r EXCEPT !.errors =
                            Append(@, "Schema file not found, skipping schema validation"),
                        !.valid = FALSE])
    ELSE IF ~schema.parses THEN Step(TRUE, "Unexpected token", r)
    ELSE recordSchemaErrors(r, validateSchema(decisionData, schema.data), verbose)

\* the schema step
checkSchema(r, decisionData, schema, verbose) ==
    IF ~schema.present
    THEN Step(FALSE, "",
              [r EXCEPT !.warnings =
                  Append(@, "Schema file not found, skipping schema validation")])
    ELSE IF ~schema.parses THEN Step(TRUE, "Unexpected token", r)
    ELSE recordSchemaErrors(r, validateSchema(decisionData, schema.data), verbose)

checkTitle(r, decisionData) ==
    IF \/ Not(Prop(decisionData, "title"))
       \/ LessThan(Prop(Prop(decisionData, "title"), "length"), MinTitleLength)
    THEN [r EXCEPT !.errors = Append(@, "Title is missing or too short"), !.valid = FALSE]
    ELSE r

\* the status heuristic as a warning
checkStatusAsWarning(r, decisionData) ==
    IF Not(Prop(decisionData, "status"))
    THEN [r EXCEPT !.warnings = Append(@, "Status is missing")]
    ELSE r

checkStatus(r, decisionData) ==
    IF Not(Prop(decisionData, "status"))
    THEN [r EXCEPT !.errors = Append(@, "Status is missing"), !.valid = FALSE]
    ELSE r

checkDate(r, decisionData) ==
    IF Not(Prop(decisionData, "date"))
    THEN [r EXCEPT !.errors = Append(@, "Date is missing"), !.valid = FALSE]
    ELSE r

checkContext(r, decisionData) ==
    IF \/ Not(Prop(decisionData, "context"))
       \/ Not(Prop(Prop(decisionData, "context"), "problem"))
    THEN [r EXCEPT !.warnings = Append(@, "Context or problem description is missing")]
    ELSE IF LessThan(Prop(Prop(Prop(decisionData, "context"), "problem"), "length"),
                     MinProblemLength)
    THEN [r EXCEPT !.warnings =
             Append(@, "Problem description is very short (< 50 characters)")]
    ELSE r

checkDecision(r, decisionData) ==
    IF \/ Not(Prop(decisionData, "decision"))
       \/ Not(Prop(Prop(decisionData, "decision"), "summary"))
    THEN [r EXCEPT !.warnings = Append(@, "Decision summary is missing")]
    ELSE r

\* !list || list.length === 0
NoneListed(list) == Not(list) \/ StrictEquals(Prop(list, "length"), 0)

checkPositive(r, consequences) ==
    IF NoneListed(Prop(consequences, "positive"))
    THEN [r EXCEPT !.warnings = Append(@, "No positive consequences listed")]
    ELSE r

checkNegative(r, consequences) ==
    IF NoneListed(Prop(consequences, "negative"))
    THEN [r EXCEPT !.warnings =
             Append(@, "No negative consequences listed (be honest about trade-offs!)")]
    ELSE r

checkConsequences(r, decisionData) ==
    IF Not(Prop(decisionData, "consequences"))
    THEN [r EXCEPT !.errors = Append(@, "Consequences section is missing"),
                   !.valid = FALSE]
    ELSE checkNegative(checkPositive(r, Prop(decisionData, "consequences")),
                       Prop(decisionData, "consequences"))

checkAlternatives(r, decisionData) ==
    IF NoneListed(Prop(decisionData, "alternatives"))
    THEN [r EXCEPT !.warnings =
             Append(@, "No alternatives considered (recommended to document)")]
    ELSE r

checkEvidence(r, decisionData) ==
    IF Not(Prop(decisionData, "evidence"))
    THEN [r EXCEPT !.warnings =
             Append(@, "No evidence provided (recommended for important decisions)")]
    ELSE r

\* the checks for common issues, on a decisionData that has properties
checkCommonIssues(r, decisionData) ==
    checkEvidence(
        checkAlternatives(
            checkConsequences(
                checkDecision(
                    checkContext(
                        checkDate(
                            checkStatus(checkTitle(r, decisionData), decisionData),
                            decisionData),
                        decisionData),
                    decisionData),
                decisionData),
            decisionData),
        decisionData)

\* after the schema step: the catch clause, or the checks for common issues
afterSchema(step, decisionData) ==
    IF step.threw
    THEN [step.r EXCEPT !.errors = Append(@, "Invalid JSON in decision.json: " \o step.message),
                        !.valid = FALSE]
    ELSE IF NoProperties(decisionData)
    THEN [step.r EXCEPT !.errors =
                           Append(@, "Invalid JSON in decision.json: Cannot read properties of null"),
                        !.valid = FALSE]
    ELSE checkCommonIssues(step.r, decisionData)

\* the decision.json block, the schema file looked up before decision.json is parsed
checkDecisionJsonSchemaFirst(r, entry, schema, verbose) ==
    IF ~fileExists(entry, "decision.json") THEN r
    ELSE IF ~entry.json.parses
    THEN [checkSchema(r, JArr(<<>>), schema, verbose).r
             EXCEPT !.errors = Append(@, "Invalid JSON in decision.json: Unexpected token"),
                    !.valid = FALSE]
    ELSE afterSchema(checkSchema(r, entry.json.data, schema, verbose), entry.json.data)

\* the decision.json block: parse, schema step, common issues, catch clause
checkDecisionJson(r, entry, schema, verbose) ==
    IF ~fileExists(entry, "decision.json") THEN r
    ELSE IF ~entry.json.parses
    THEN [r EXCEPT !.errors = Append(@, "Invalid JSON in decision.json: Unexpected token"),
                   !.valid = FALSE]
    ELSE afterSchema(checkSchema(r, entry.json.data, schema, verbose), entry.json.data)

\* the rest of the prov.jsonld block, on a provData that has properties
checkProvContext(r, provData, verbose) ==
    IF Not(Prop(provData, "@context"))
    THEN [r EXCEPT !.warnings = Append(@, "prov.jsonld missing @context"),
                   !.info = IF verbose THEN Append(@, "prov.jsonld is valid JSON-LD") ELSE @]
    ELSE [r EXCEPT !.info = IF verbose THEN Append(@, "prov.jsonld is valid JSON-LD") ELSE @]

\* the prov.jsonld block, with the parse error left out of the verdict
checkProvJsonldErrorOnly(r, entry, verbose) ==
    IF ~fileExists(entry, "prov.jsonld") THEN r
    ELSE IF ~entry.prov.parses
    THEN [r EXCEPT !.errors = Append(@, "Invalid JSON in prov.jsonld: Unexpected token")]
    ELSE IF NoProperties(entry.prov.data)
    THEN [r EXCEPT !.errors =
                      Append(@, "Invalid JSON in prov.jsonld: Cannot read properties of null"),
                   !.valid = FALSE]
    ELSE checkProvContext(r, entry.prov.data, verbose)

\* the prov.jsonld block
checkProvJsonld(r, entry, verbose) ==
    IF ~fileExists(entry, "prov.jsonld") THEN r
    ELSE IF ~entry.prov.parses
    THEN [r EXCEPT !.errors = Append(@, "Invalid JSON in prov.jsonld: Unexpected token"),
                   !.valid = FALSE]
    ELSE IF NoProperties(entry.prov.data)
    THEN [r EXCEPT !.errors =
                      Append(@, "Invalid JSON in prov.jsonld: Cannot read properties of null"),
                   !.valid = FALSE]
    ELSE checkProvContext(r, entry.prov.data, verbose)

\* the c2pa.manifest.json block
checkC2paManifest(r, entry, verbose) ==
    IF ~fileExists(entry, "c2pa.manifest.json") THEN r
    ELSE IF ~entry.c2pa.parses
    THEN [r EXCEPT !.errors =
                      Append(@, "Invalid JSON in c2pa.manifest.json: Unexpected token"),
                   !.valid = FALSE]
    ELSE IF verbose THEN [r EXCEPT !.info = Append(@, "c2pa.manifest.json is valid JSON")]
    ELSE r

\* validateDecisionRecord(decisionPath, verbose), decisionPath holding entry
validateDecisionRecord(decisionName, entry, schema, verbose) ==
    checkC2paManifest(
        checkProvJsonld(
            checkDecisionJson(
                checkOptionalFile(
                    checkOptionalFile(
                        checkRequiredFile(
                            checkRequiredFile(newResults(decisionName), entry,
                                              requiredFiles[1], verbose),
                            entry, requiredFiles[2], verbose),
                        entry, optionalFiles[1], verbose),
                    entry, optionalFiles[2], verbose),
                entry, schema, verbose),
            entry, verbose),
        entry, verbose)

----------------------------------------------------------------------------
(* validate <id> on one directory (specification SpecRecord) *)

Accepted == <<"a", "c", "c", "e", "p", "t", "e", "d">>

Proposed == <<"p", "r", "o", "p", "o", "s", "e", "d">>

RecordName ==
    <<"0", "0", "1", "-", "u", "s", "e", "-", "p", "o", "s", "t", "g", "r", "e", "s", "q", "l">>

NoFields == [k \in {} |-> Undefined]

\* a decision.json that passes every check without a warning
CompleteDecision ==
    JObj([id |-> JStr(RecordName),
          title |-> JStr(UsePostgresql),
          status |-> JStr(Accepted),
          date |-> JStr(TemplateDate),
          context |-> JObj([problem |-> JStr([i \in 1..MinProblemLength |-> "x"])]),
          decision |-> JObj([summary |-> JStr(UsePostgresql)]),
          consequences |-> JObj([positive |-> JArr(<<JStr(<<"+">>)>>),
                                 negative |-> JArr(<<JStr(<<"-">>)>>)]),
          alternatives |-> JArr(<<JStr(<<"M", "y", "S", "Q", "L">>)>>),
          evidence |-> JObj(NoFields)])

\* one that passes with warnings
SparseDecision ==
    JObj([id |-> JStr(RecordName),
          title |-> JStr(UsePostgresql),
          status |-> JStr(Proposed),
          date |-> JStr(TemplateDate),
          context |-> JObj([problem |-> JStr(<<"s", "l", "o", "w">>)]),
          consequences |-> JObj([positive |-> JArr(<<>>)])])

\* one with a short title, a status outside the enum, no date, no consequences
PoorDecision ==
    JObj([title |-> JStr(<<"U", "s", "e">>),
          status |-> JStr(<<"d", "o", "n", "e">>),
          alternatives |-> JArr(<<>>)])

\* {"id": "002-x"}
IdOnlyDecision == JObj([k \in {"id"} |-> JStr(<<"0", "0", "2", "-", "x">>)])

\* a complete decision.json declaring the id of another record
MisnamedDecision == Put(CompleteDecision, "id", JStr(<<"0", "0", "2", "-", "x">>))

\* a complete decision.json declaring no id
AnonymousDecision ==
    JObj([k \in DOMAIN CompleteDecision.f \ {"id"} |-> CompleteDecision.f[k]])

DecisionDocs ==
    {NoJson, CorruptJson, JsonFile(CompleteDecision), JsonFile(SparseDecision),
     JsonFile(PoorDecision), JsonFile(IdOnlyDecision), JsonFile(JNull),
     JsonFile(JArr(<<>>)), JsonFile(JStr(UsePostgresql)), JsonFile(JNum(7)),
     JsonFile(MisnamedDecision), JsonFile(AnonymousDecision)}

ProvDocs ==
    {NoJson, CorruptJson, JsonFile(JNull), JsonFile(JObj(NoFields)),
     JsonFile(JObj([x \in {"@context"} |-> JStr(<<"p", "r", "o", "v">>)]))}

StringSchema == [EmptySchema EXCEPT !.type = <<"string">>]

\* a schema for decision.json
DecisionSchema ==
    [EmptySchema EXCEPT
        !.type = <<"object">>,
        !.required = <<"id", "title", "status">>,
        !.properties =
            << [key |-> "id", schema |-> [StringSchema EXCEPT !.pattern = NumberedPattern]],
               [key |-> "title",
                schema |-> [StringSchema EXCEPT !.minLength = MinTitleLength]],
               [key |-> "status",
                schema |-> [StringSchema EXCEPT !.hasEnum = TRUE,
                                                !.enum = <<JStr(Proposed), JStr(Accepted)>>]],
               [key |-> "consequences",
                schema |-> [EmptySchema EXCEPT !.type = <<"object">>,
                                               !.required = <<"positive", "negative">>]],
               [key |-> "alternatives",
                schema |-> [EmptySchema EXCEPT !.type = <<"array">>, !.minItems = 1]] >>]

\* a schema whose title pattern does not compile
BrokenSchema ==
    [EmptySchema EXCEPT
        !.properties =
            << [key |-> "title",
                schema |-> [StringSchema EXCEPT !.pattern = BrokenPattern]] >>]

SchemaDocs ==
    {NoJson, CorruptJson, JsonFile(JNull), JsonFile(DecisionSchema), JsonFile(BrokenSchema)}

\* what provenance/decisions/<id> can be: a directory of documents or a file
Entries ==
    {Dir(j, p, c, m) : j \in DecisionDocs, p \in ProvDocs,
                       c \in {NoJson, CorruptJson, JsonFile(JObj(NoFields))},
                       m \in {NoText, TextFile(<<"#">>)}}
        \cup {RegularFile}

InitRecord ==
    /\ decisionsDirExists = TRUE
    /\ record = RecordName
    /\ \/ fs = NoRun
       \/ \E e \in Entries : fs = (record :> e)
    /\ schemaFile \in SchemaDocs
    /\ local \in [verbose : BOOLEAN]
    /\ results = <<>> /\ dirs = {} /\ exitCode = -1
    /\ pc = "start"
    /\ created = <<>> /\ last = NoInvocation /\ writer = NoRun

\* validate <decisionId> that takes a missing provenance/decisions/<id> for a pass
ValidateIdMissingPasses ==
    /\ pc = "start"
    /\ pc' = "exit"
    /\ IF ~existsSync(fs, record)
       THEN exitCode' = 0 /\ results' = results
       ELSE LET result == validateDecisionRecord(record, fs[record], schemaFile,
                                                 local.verbose)
            IN  /\ results' = <<result>>
                /\ exitCode' = IF result.valid THEN 0 ELSE 1
    /\ UNCHANGED <<decisionsDirExists, fs, created, last, local, writer, record,
                   schemaFile, dirs>>

\* node tools/validate-decision.js <decisionId>
ValidateId ==
    /\ pc = "start"
    /\ pc' = "exit"
    /\ IF ~existsSync(fs, record)
       THEN exitCode' = 1 /\ results' = results
       ELSE LET result == validateDecisionRecord(record, fs[record], schemaFile,
                                                 local.verbose)
            IN  /\ results' = <<result>>
                /\ exitCode' = IF result.valid THEN 0 ELSE 1
    /\ UNCHANGED <<decisionsDirExists, fs, created, last, local, writer, record,
                   schemaFile, dirs>>

NextRecord == ValidateId

SpecRecord == InitRecord /\ [][NextRecord]_vars

----------------------------------------------------------------------------
(* validate --all (specification SpecBatch): validateAll, one action for the
   existence check and readdirSync, one for each turn of the loop, one for the
   summary.  The loop takes the entries in any order. *)

CleanRecord ==
    Dir(JsonFile(CompleteDecision),
        JsonFile(JObj([x \in {"@context"} |-> JStr(<<"p", "r", "o", "v">>)])),
        JsonFile(JObj(NoFields)), TextFile(<<"#">>))

WarnedRecord == Dir(JsonFile(SparseDecision), NoJson, NoJson, TextFile(<<"#">>))

\* the TEMPLATE directory of the repository: decision.md alone
MarkdownTemplate == Dir(NoJson, NoJson, NoJson, TextFile(<<"#">>))

\* the record directories of the model, each with the state it has when one of
\* its documents does not parse
Unparsed ==
    (<<"0", "0", "1", "-", "a">> :>
        Dir(CorruptJson, NoJson, NoJson, TextFile(<<"#">>)))
    @@ (<<"0", "0", "2", "-", "b">> :>
        Dir(JsonFile(CompleteDecision), CorruptJson, JsonFile(JObj(NoFields)), TextFile(<<"#">>)))
    @@ (<<"0", "0", "3", "-", "c">> :>
        Dir(JsonFile(SparseDecision), NoJson, CorruptJson, TextFile(<<"#">>)))

InitBatch ==
    /\ decisionsDirExists \in BOOLEAN
    /\ \E S \in SUBSET DOMAIN Unparsed, T \in SUBSET {TEMPLATE, <<"n", "o", "t", "e", "s">>} :
       \E content \in [S -> {"clean", "warned", "unparsed"}] :
          fs = IF ~decisionsDirExists THEN NoRun
               ELSE [n \in S \cup T |->
                        IF n = TEMPLATE THEN MarkdownTemplate
                        ELSE IF n \notin DOMAIN Unparsed THEN RegularFile
                        ELSE IF content[n] = "clean" THEN CleanRecord
                        ELSE IF content[n] = "warned" THEN WarnedRecord
                        ELSE Unparsed[n]]
    /\ schemaFile \in {NoJson, JsonFile(DecisionSchema)}
    /\ local = [verbose |-> FALSE]
    /\ record = <<>>
    /\ results = <<>> /\ dirs = {} /\ exitCode = -1
    /\ pc = "start"
    /\ created = <<>> /\ last = NoInvocation /\ writer = NoRun

\* validateAll making the decisions directory when it is missing
ReadDirMaking ==
    /\ pc = "start"
    /\ pc' = "loop" /\ exitCode' = exitCode /\ dirs' = DOMAIN fs
    /\ decisionsDirExists' = TRUE
    /\ UNCHANGED <<fs, created, last, local, writer, record, schemaFile, results>>

\* if (!fs.existsSync(DECISIONS_DIR)) process.exit(1); dirs = fs.readdirSync(...)
ReadDir ==
    /\ pc = "start"
    /\ IF ~decisionsDirExists
       THEN pc' = "exit" /\ exitCode' = 1 /\ dirs' = dirs
       ELSE pc' = "loop" /\ exitCode' = exitCode /\ dirs' = DOMAIN fs
    /\ UNCHANGED <<decisionsDirExists, fs, created, last, local, writer, record,
                   schemaFile, results>>

\* a turn of the loop that stops the run at a record that is not valid
VisitStopping(dir) ==
    /\ pc = "loop" /\ dir \in dirs
    /\ dirs' = dirs \ {dir}
    /\ record' = dir
    /\ results' = IF isDirectory(fs[dir]) /\ dir # TEMPLATE
                  THEN Append(results, validateDecisionRecord(dir, fs[dir], schemaFile,
                                                              local.verbose))
                  ELSE results
    /\ IF results' # <<>> /\ ~Last(results').valid
       THEN pc' = "exit" /\ exitCode' = 1
       ELSE pc' = pc /\ exitCode' = exitCode
    /\ UNCHANGED <<decisionsDirExists, fs, created, last, local, writer, schemaFile>>

\* a turn of the loop over dirs
Visit(dir) ==
    /\ pc = "loop" /\ dir \in dirs
    /\ dirs' = dirs \ {dir}
    /\ record' = dir
    /\ results' = IF isDirectory(fs[dir]) /\ dir # TEMPLATE
                  THEN Append(results, validateDecisionRecord(dir, fs[dir], schemaFile,
                                                              local.verbose))
                  ELSE results
    /\ UNCHANGED <<decisionsDirExists, fs, created, last, pc, local, writer, schemaFile,
                   exitCode>>

\* results.reduce((sum, r) => sum + r.warnings.length, 0)
RECURSIVE totalWarningsOf(_)
totalWarningsOf(rs) ==
    IF rs = <<>> THEN 0 ELSE Len(Head(rs).warnings) + totalWarningsOf(Tail(rs))

\* the counts of the summary
summaryOf(rs) ==
    [op |-> "validate --all",
     total |-> Len(rs),
     valid |-> Len(SelectSeq(rs, LAMBDA r : r.valid)),
     invalid |-> Len(SelectSeq(rs, LAMBDA r : ~r.valid)),
     totalWarnings |-> totalWarningsOf(rs)]

\* the exit code of a summary that counts warnings as failures
exitOfWarnings(summary) ==
    IF summary.invalid > 0 \/ summary.totalWarnings > 0 THEN 1 ELSE 0

\* the exit code of the summary
exitOf(summary) == IF summary.invalid > 0 THEN 1 ELSE 0

\* the summary and process.exit
Summary ==
    /\ pc = "loop" /\ dirs = {}
    /\ pc' = "exit"
    /\ last' = summaryOf(results)
    /\ exitCode' = exitOf(last')
    /\ UNCHANGED <<decisionsDirExists, fs, created, local, writer, record, schemaFile,
                   results, dirs>>

NextBatch ==
    \/ ReadDir
    \/ \E dir \in dirs : Visit(dir)
    \/ Summary

SpecBatch == InitBatch /\ [][NextBatch]_vars

----------------------------------------------------------------------------
(* The command lines of the three tools (specification SpecMain) *)

OptAll == <<"-", "-", "a", "l", "l">>

OptVerbose == <<"-", "-", "v", "e", "r", "b", "o", "s", "e">>

OptHelp == <<"-", "-", "h", "e", "l", "p">>

OptList == <<"-", "-", "l", "i", "s", "t">>

\* str.startsWith(prefix)
startsWith(str, prefix) ==
    Len(str) >= Len(prefix) /\ SubSeq(str, 1, Len(prefix)) = prefix

\* args.includes(option)
hasArg(args, option) == \E i \in 1..Len(args) : args[i] = option

\* the options of validate-decision.js
parseOptions(args) ==
    [all |-> hasArg(args, OptAll),
     verbose |-> hasArg(args, OptVerbose) \/ hasArg(args, <<"-", "v">>),
     help |-> hasArg(args, OptHelp) \/ hasArg(args, <<"-", "h">>)]

\* args.find(arg => !arg.startsWith('--') && !arg.startsWith('-'))
findDecisionId(args) ==
    IF \A i \in 1..Len(args) :
           startsWith(args[i], <<"-", "-">>) \/ startsWith(args[i], <<"-">>)
    THEN Undefined
    ELSE JStr(args[CHOOSE i \in 1..Len(args) :
                      /\ ~startsWith(args[i], <<"-", "-">>) /\ ~startsWith(args[i], <<"-">>)
                      /\ \A j \in 1..(i - 1) :
                            startsWith(args[j], <<"-", "-">>) \/ startsWith(args[j], <<"-">>)])

\* DECISIONS_DIR of the three tools
DECISIONS_DIR == <<"p", "r", "o", "v", "e", "n", "a", "n", "c", "e", "/", "d", "e", "c", "i", "s", "i", "o", "n", "s">>

\* path.join(DECISIONS_DIR, decisionId) as the segments below DECISIONS_DIR;
\* empty segments and "." are dropped by the normalisation
pathBelow(decisionId) ==
    SelectSeq(split(decisionId, "/"), LAMBDA seg : seg # <<>> /\ seg # <<".">>)

\* fs.existsSync(path.join(DECISIONS_DIR, decisionId)): one segment names an
\* entry of the directory; no entry of the model holds a directory, so a path
\* of more segments through directories names nothing
existsBelow(entries, decisionId) ==
    /\ Len(pathBelow(decisionId)) = 1
    /\ existsSync(entries, pathBelow(decisionId)[1])

\* what printUsage leaves on the terminal
Usage(tool) == [op |-> "printUsage", tool |-> tool]

\* main of validate-decision.js up to process.exit, or up to the call of
\* validateAll
main_validate_decision_js ==
    /\ pc = "main" /\ local.tool = "validate-decision.js"
    /\ IF parseOptions(local.args).help
          \/ (Len(local.args) = 0 /\ ~parseOptions(local.args).all)
       THEN /\ last' = Usage(local.tool)
            /\ pc' = "exit" /\ exitCode' = 0
            /\ UNCHANGED <<local, record, results>>
       ELSE IF parseOptions(local.args).all
       THEN /\ pc' = "start"
            /\ local' = [local EXCEPT !.verbose = parseOptions(local.args).verbose]
            /\ UNCHANGED <<last, exitCode, record, results>>
       ELSE IF ~Not(findDecisionId(local.args))
       THEN /\ record' = findDecisionId(local.args).s
            /\ pc' = "exit"
            /\ local' = [local EXCEPT !.verbose = parseOptions(local.args).verbose]
            /\ IF ~existsBelow(fs, record')
               THEN /\ last' = [op |-> "Decision not found", tool |-> local.tool]
                    /\ exitCode' = 1 /\ results' = results
               ELSE /\ last' = [op |-> "validate", tool |-> local.tool]
                    /\ results' = <<validateDecisionRecord(pathBelow(record')[1],
                                                           fs[pathBelow(record')[1]],
                                                           schemaFile, local'.verbose)>>
                    /\ exitCode' = IF results'[1].valid THEN 0 ELSE 1
       ELSE /\ last' = Usage(local.tool)
            /\ pc' = "exit" /\ exitCode' = 1
            /\ UNCHANGED <<local, record, results>>
    /\ UNCHANGED <<decisionsDirExists, fs, created, writer, schemaFile, dirs>>

\* the orders in which a directory can be enumerated
Orders(S) ==
    {s \in [1..Cardinality(S) -> S] : \A x \in S : \E i \in 1..Cardinality(S) : s[i] = x}

\* statusIcons[data.status] || the question mark
iconOf(status) ==
    IF status.t = "string"
       /\ Text(status.s) \in {"accepted", "implemented", "proposed", "deprecated", "rejected"}
    THEN Text(status.s) ELSE "?"

\* the line listDecisions prints for one entry of dirs
lineOf(entries, name) ==
    IF /\ entries[name].json.present /\ entries[name].json.parses
       /\ ~NoProperties(entries[name].json.data)
    THEN [name |-> name, bare |-> FALSE,
          icon |-> iconOf(Prop(entries[name].json.data, "status")),
          title |-> Prop(entries[name].json.data, "title"),
          status |-> Prop(entries[name].json.data, "status")]
    ELSE [name |-> name, bare |-> TRUE, icon |-> "", title |-> Undefined,
          status |-> Undefined]

\* the record lines of listDecisions, listing being what readdirSync returned
listDecisions(exists, entries, listing) ==
    IF ~exists THEN <<>>
    ELSE LET shown == SelectSeq(listing, LAMBDA name :
                                   isDirectory(entries[name]) /\ name # TEMPLATE)
         IN  [i \in 1..Len(shown) |-> lineOf(entries, shown[i])]

\* main of new-decision.js
main_new_decision_js ==
    /\ pc = "main" /\ local.tool = "new-decision.js"
    /\ pc' = "exit"
    /\ IF \/ Len(local.args) = 0
          \/ local.args[1] = <<"-", "h">> \/ local.args[1] = OptHelp
       THEN /\ last' = Usage(local.tool)
            /\ exitCode' = IF Len(local.args) = 0 THEN 1 ELSE 0
            /\ UNCHANGED <<fs, decisionsDirExists, created>>
       ELSE IF local.args[1] = <<"-", "l">> \/ local.args[1] = OptList
       THEN /\ \E order \in Orders(DOMAIN fs) :
                  last' = [op |-> "list", tool |-> local.tool, listing |-> order,
                           lines |-> listDecisions(decisionsDirExists, fs, order)]
            /\ exitCode' = 0
            /\ UNCHANGED <<fs, decisionsDirExists, created>>
       ELSE \E iso \in Clock :
               LET run == createDecision(decisionsDirExists, fs, local.args[1], iso)
               IN  /\ fs' = run.entries
                   /\ decisionsDirExists' = run.exists
                   /\ exitCode' = run.exit
                   /\ last' = [op |-> "create", arg |-> local.args[1],
                               iso |-> IF run.exit = 0 THEN iso ELSE <<>>,
                               exit |-> run.exit, msg |-> run.msg, target |-> run.target,
                               number |-> run.number, warnings |-> run.warnings,
                               wrote |-> run.entries # fs]
                   /\ created' = IF run.entries # fs
                                 THEN Append(created, [number |-> run.number,
                                                       target |-> run.target])
                                 ELSE created
    /\ UNCHANGED <<local, writer, record, schemaFile, results, dirs>>

\* the characters of the model's names in the order of their codes
CharOrder == <<" ", "!", "-">> \o Digits \o UpperChars \o <<"_">> \o LowerChars

codeOf(c) == CHOOSE i \in 1..Len(CharOrder) : CharOrder[i] = c

\* a sorts before b, byte by byte
LexLess(a, b) ==
    \/ Len(a) < Len(b) /\ SubSeq(b, 1, Len(a)) = a
    \/ \E i \in 1..Len(a) :
          /\ i <= Len(b)
          /\ SubSeq(a, 1, i - 1) = SubSeq(b, 1, i - 1)
          /\ codeOf(a[i]) < codeOf(b[i])

\* a glob that expands to the names in descending order
globDescending(entries) ==
    CHOOSE s \in Orders(DOMAIN entries) :
        \A i \in 1..Len(s), j \in 1..Len(s) : i < j => LexLess(s[j], s[i])

\* "$DECISIONS_DIR"/* : the names of the directory, sorted by the shell
glob(entries) ==
    CHOOSE s \in Orders(DOMAIN entries) :
        \A i \in 1..Len(s), j \in 1..Len(s) : i < j => LexLess(s[i], s[j])

NotAvailable == JStr(<<"N", "/", "A">>)

Unknown == JStr(<<"u", "n", "k", "n", "o", "w", "n">>)

\* the line list_decisions prints for one directory: title and status from
\* node -p with its catch, the bare name without a decision.json
line_of(entries, name) ==
    IF ~entries[name].json.present
    THEN [name |-> name, bare |-> TRUE, icon |-> "", title |-> Undefined,
          status |-> Undefined]
    ELSE IF ~entries[name].json.parses \/ NoProperties(entries[name].json.data)
    THEN [name |-> name, bare |-> FALSE, icon |-> "?", title |-> NotAvailable,
          status |-> Unknown]
    ELSE [name |-> name, bare |-> FALSE,
          icon |-> iconOf(Prop(entries[name].json.data, "status")),
          title |-> Prop(entries[name].json.data, "title"),
          status |-> Prop(entries[name].json.data, "status")]

\* the record lines of list_decisions
list_decisions(exists, entries) ==
    IF ~exists THEN <<>>
    ELSE LET shown == SelectSeq(glob(entries), LAMBDA name :
                                   isDirectory(entries[name]) /\ name # TEMPLATE)
         IN  [i \in 1..Len(shown) |-> line_of(entries, shown[i])]

\* the text the echo builtin writes for one argument, its newline left out:
\* an argument made of - and the letters n, e, E is taken as options
echo(arg) ==
    IF Len(arg) > 1 /\ arg[1] = "-" /\ \A i \in 2..Len(arg) : arg[i] \in {"n", "e", "E"}
    THEN <<>> ELSE arg

\* tr '[:upper:]' '[:lower:]' | tr ' ' '-' | tr -cd '[:alnum:]-'
sanitize_name(name) ==
    SelectSeq([i \in 1..Len(echo(name)) |->
                  IF echo(name)[i] = " " THEN "-" ELSE toLowerCase(<<echo(name)[i]>>)[1]],
              IsSlugChar)

\* sed 's/-/ /g' | awk: every field capitalised, the fields joined by one
\* space; a line without a field is printed as it is
title_of(decision_name) ==
    LET fields == SelectSeq(split(echo(decision_name), "-"), LAMBDA w : w # <<>>)
    IN  IF fields = <<>> THEN [i \in 1..Len(echo(decision_name)) |-> " "]
        ELSE join([i \in 1..Len(fields) |-> capitalize(fields[i])], <<" ">>)

\* the node -e script writing the file after each assignment
patch_decision_json_partial(file, full_name, decision_name, current_date, current_datetime) ==
    IF ~file.present \/ ~file.parses \/ file.data.t # "object" THEN file
    ELSE JsonFile(Put(file.data, "id", JStr(full_name)))

\* the node -e script of create_decision: an exception leaves the file as copied
patch_decision_json(file, full_name, decision_name, current_date, current_datetime) ==
    IF \/ ~file.present \/ ~file.parses
       \/ file.data.t # "object"
       \/ NoProperties(Get(file.data, "provenanceCode"))
    THEN file
    ELSE JsonFile(Put(patchDecisionJson(file, full_name, decision_name, current_date,
                                        current_datetime).data,
                      "title", JStr(title_of(decision_name))))

\* the echo after || of the node -e command, reached when -f decision.json
patch_warnings(file) ==
    IF file.present /\ patchThrows(file)
    THEN <<"Could not update decision.json (Node.js required)">> ELSE <<>>

\* create_decision "$1" run to its exit
create_decision(exists, entries, name, current_date, current_datetime) ==
    LET decision_name == sanitize_name(name)
        decision_number == get_next_number(exists, entries)
        full_name == decision_number \o <<"-">> \o decision_name
    IN  IF decision_name = <<>>
        THEN [exit |-> 1, msg |-> "Invalid decision name", target |-> <<>>,
              number |-> <<>>, warnings |-> <<>>, exists |-> exists, entries |-> entries]
        ELSE IF existsSync(entries, full_name) /\ isDirectory(entries[full_name])
        THEN [exit |-> 1, msg |-> "Decision already exists", target |-> full_name,
              number |-> decision_number, warnings |-> <<>>, exists |-> exists, entries |-> entries]
        ELSE IF ~(existsSync(entries, TEMPLATE) /\ isDirectory(entries[TEMPLATE]))
        THEN [exit |-> 1, msg |-> "Template directory not found", target |-> full_name,
              number |-> decision_number, warnings |-> <<>>, exists |-> exists, entries |-> entries]
        ELSE IF existsSync(entries, full_name)
        THEN [exit |-> 1, msg |-> "cp: cannot overwrite non-directory",
              target |-> full_name, number |-> decision_number, warnings |-> <<>>, exists |-> exists,
              entries |-> entries]
        ELSE [exit |-> 0, msg |-> "Decision record created successfully!",
              target |-> full_name, number |-> decision_number,
              warnings |-> patch_warnings(entries[TEMPLATE].json), exists |-> exists,
              entries |->
                  (full_name :>
                      Dir(patch_decision_json(entries[TEMPLATE].json, full_name,
                                              decision_name, current_date,
                                              current_datetime),
                          updateFile(entries[TEMPLATE].prov,
                                     provReplacements(full_name, current_datetime)),
                          updateFile(entries[TEMPLATE].c2pa,
                                     c2paReplacements(full_name, current_date,
                                                      current_datetime)),
                          updateFile(entries[TEMPLATE].md, mdReplacements(current_date))))
                  @@ entries]

\* date -u +%Y-%m-%dT%H:%M:%SZ at the instant toISOString() prints as iso
dateTimeOf(iso) == SubSeq(iso, 1, 19) \o <<"Z">>

\* main of new-decision.sh; without an argument "$1" is the empty string
main_new_decision_sh ==
    /\ pc = "main" /\ local.tool = "new-decision.sh"
    /\ pc' = "exit"
    /\ IF Len(local.args) > 0
          /\ (local.args[1] = <<"-", "h">> \/ local.args[1] = OptHelp)
       THEN /\ last' = Usage(local.tool)
            /\ exitCode' = 0
            /\ UNCHANGED <<fs, decisionsDirExists, created>>
       ELSE IF Len(local.args) > 0
               /\ (local.args[1] = <<"-", "l">> \/ local.args[1] = OptList)
       THEN /\ last' = [op |-> "list", tool |-> local.tool, listing |-> glob(fs),
                        lines |-> list_decisions(decisionsDirExists, fs)]
            /\ exitCode' = 0
            /\ UNCHANGED <<fs, decisionsDirExists, created>>
       ELSE IF Len(local.args) = 0
       THEN /\ last' = Usage(local.tool)
            /\ exitCode' = 1
            /\ UNCHANGED <<fs, decisionsDirExists, created>>
       ELSE \E iso \in Clock, today \in {currentDateOf(i) : i \in Clock} :
               LET run == create_decision(decisionsDirExists, fs, local.args[1], today,
                                          dateTimeOf(iso))
               IN  /\ fs' = run.entries
                   /\ decisionsDirExists' = run.exists
                   /\ exitCode' = run.exit
                   /\ last' = [op |-> "create", arg |-> local.args[1],
                               iso |-> IF run.exit = 0 THEN iso ELSE <<>>,
                               exit |-> run.exit, msg |-> run.msg, target |-> run.target,
                               number |-> run.number, warnings |-> run.warnings,
                               wrote |-> run.entries # fs]
                   /\ created' = IF run.entries # fs
                                 THEN Append(created, [number |-> run.number,
                                                       target |-> run.target])
                                 ELSE created
    /\ UNCHANGED <<local, writer, record, schemaFile, results, dirs>>

\* provenance/decisions/* as the shell expands it: the sorted paths of the
\* entries, or the pattern itself when the directory has none
CiArgs(exists, entries) ==
    IF ~exists \/ DOMAIN entries = {}
    THEN <<DECISIONS_DIR \o <<"/", "*">>>>
    ELSE [i \in 1..Len(glob(entries)) |-> DECISIONS_DIR \o <<"/">> \o glob(entries)[i]]

\* the command lines of validate-decision.js
ValidateArgs ==
    {<<>>, <<OptAll>>, <<OptVerbose>>, <<<<"-", "v">>>>, <<OptHelp>>,
     <<RecordName>>, <<RecordName, OptVerbose>>, <<TEMPLATE>>,
     <<OptAll, OptVerbose>>, <<RecordName, OptHelp>>, <<<<>>>>}

\* the command lines of new-decision.js and new-decision.sh
CreateArgs ==
    {<<>>, <<<<"-", "h">>>>, <<OptHelp>>, <<<<"-", "l">>>>, <<OptList>>,
     <<UsePostgresql>>, <<<<"!">>>>, <<UsePostgresql, OptHelp>>}

\* a decisions directory for validate-decision.js: TEMPLATE with or without
\* the documents of a record, record directories, a regular file
ValidatedDirs ==
    {[n \in S |->
         IF n = TEMPLATE THEN t
         ELSE IF n = <<"n", "o", "t", "e", "s">> THEN RegularFile
         ELSE IF n = RecordName THEN r
         ELSE Unparsed[n]] :
       S \in SUBSET {TEMPLATE, <<"n", "o", "t", "e", "s">>, RecordName,
                     <<"0", "0", "2", "-", "b">>},
       t \in {MarkdownTemplate, CleanRecord},
       r \in {CleanRecord, WarnedRecord, Dir(JsonFile(IdOnlyDecision), NoJson, NoJson, NoText)}}

InitMain ==
    /\ decisionsDirExists \in BOOLEAN
    /\ \E tool \in {"validate-decision.js", "new-decision.js", "new-decision.sh"} :
          /\ IF ~decisionsDirExists THEN fs = NoRun
             ELSE IF tool = "validate-decision.js" THEN fs \in ValidatedDirs
             ELSE \E l \in Listings :
                     fs = IF l.tpl = EmptyDir THEN Restrict(HandMade, l.made)
                          ELSE (TEMPLATE :> l.tpl) @@ Restrict(HandMade, l.made)
          /\ \E args \in IF tool = "validate-decision.js"
                          THEN ValidateArgs \cup {CiArgs(decisionsDirExists, fs)}
                          ELSE CreateArgs :
                local = [tool |-> tool, args |-> args, verbose |-> FALSE]
    /\ schemaFile \in {NoJson, JsonFile(DecisionSchema)}
    /\ record = <<>>
    /\ results = <<>> /\ dirs = {} /\ exitCode = -1
    /\ pc = "main"
    /\ created = <<>> /\ last = NoInvocation /\ writer = NoRun

NextMain ==
    \/ main_validate_decision_js
    \/ main_new_decision_js
    \/ main_new_decision_sh
    \/ ReadDir
    \/ \E dir \in dirs : Visit(dir)
    \/ Summary

SpecMain == InitMain /\ [][NextMain]_vars

----------------------------------------------------------------------------
(* One create by either tool, over names and TEMPLATE directories
   (specification SpecCreate) *)

\* a decision.json that parses to an object without provenanceCode
NoProvenanceData ==
    JObj([id |-> JStr(TemplateId), title |-> JStr(<<"T">>), date |-> JStr(TemplateDate)])

\* a decision.json whose provenanceCode is a string
TextProvenanceData ==
    JObj([id |-> JStr(TemplateId), provenanceCode |-> JStr(<<"x">>)])

\* prov.jsonld and c2pa.manifest.json naming the template more than once, with
\* and without the decision: prefix
RepeatedProv ==
    DecisionPrefix \o TemplateId \o <<" ">> \o TemplateId \o <<" ">>
    \o DecisionPrefix \o TemplateId \o <<" ">> \o TemplateTimestamp

RepeatedC2pa ==
    TemplateId \o <<" ">> \o TemplateDate \o <<" ">> \o TemplateId \o <<" ">>
    \o TemplateTimestamp

\* the TEMPLATE directories create is run on
CreateTemplates ==
    {FullTemplate, CorruptTemplate, Dir(NoJson, NoText, NoText, TextFile(TemplateMd)),
     Dir(JsonFile(NoProvenanceData), TextFile(TemplateProv), TextFile(TemplateC2pa),
         TextFile(TemplateMd)),
     Dir(JsonFile(TextProvenanceData), TextFile(TemplateProv), TextFile(TemplateC2pa),
         TextFile(TemplateMd)),
     Dir(JsonFile(JNull), TextFile(TemplateProv), NoText, TextFile(TemplateMd)),
     Dir(JsonFile(TemplateData), TextFile(RepeatedProv), TextFile(RepeatedC2pa),
         TextFile(TemplateMd \o <<" ">> \o TemplateMd))}

\* the decision names given to create
CreateNames ==
    {UsePostgresql, use_postgresql, <<"!">>, <<>>, TemplateDate,
     <<"a", " ", " ", "b">>, <<"a", "\t", "b">>, <<"J", "w", "t", "-", "-", "A", "u", "t", "h">>, <<" ", "n">>, <<"A", "_", "b", "!", "2">>, <<"-", "n">>}

\* the entries of provenance/decisions before the run
CreateDirs ==
    {(TEMPLATE :> t) : t \in CreateTemplates}
    \cup {(TEMPLATE :> FullTemplate) @@ Restrict(HandMade, made) :
             made \in {{<<"0", "0", "1", "-", "a">>}, {<<"0", "0", "2", "-", "b">>, <<"0", "0", "7", "-", "c">>, <<"n", "o", "t", "e", "s">>}, {<<"0", "0", "1", "-", "u", "s", "e", "-", "p", "o", "s", "t", "g", "r", "e", "s", "q", "l">>}}}
    \cup {Restrict(HandMade, {<<"0", "0", "1", "-", "a">>}), (TEMPLATE :> RegularFile), NoRun}

InitCreate ==
    /\ decisionsDirExists \in BOOLEAN
    /\ \E tool \in {"new-decision.js", "new-decision.sh"}, name \in CreateNames :
          local = [tool |-> tool, args |-> <<name>>, verbose |-> FALSE]
    /\ IF decisionsDirExists THEN fs \in CreateDirs ELSE fs = NoRun
    /\ schemaFile = NoJson /\ record = <<>>
    /\ results = <<>> /\ dirs = {} /\ exitCode = -1
    /\ pc = "main"
    /\ created = <<>> /\ last = NoInvocation /\ writer = NoRun

NextCreate ==
    \/ main_new_decision_js
    \/ main_new_decision_sh

SpecCreate == InitCreate /\ [][NextCreate]_vars

----------------------------------------------------------------------------
(* sanitizeName applied to a name and to its own result (specification
   SpecSlug) *)

\* the longest name of the specification
MaxNameLen == 4

\* a lowercase letter, an uppercase letter, a digit, the hyphen, two
\* whitespace characters and two characters of neither kind
NameChars == {"a", "B", "7", "-", " ", "\t", "!", "_"}

InitSlug ==
    /\ record \in UNION {[1..n -> NameChars] : n \in 0..MaxNameLen}
    /\ local = [name |-> record]
    /\ pc = "name"
    /\ last = NoInvocation
    /\ decisionsDirExists = FALSE /\ fs = NoRun /\ created = <<>>
    /\ writer = NoRun /\ schemaFile = NoJson
    /\ results = <<>> /\ dirs = {} /\ exitCode = -1

\* decisionName = sanitizeName(decisionName), on the name and then on the slug
Sanitize ==
    /\ pc \in {"name", "slug"}
    /\ record' = sanitizeName(record)
    /\ last' = [op |-> "sanitizeName", arg |-> record]
    /\ pc' = IF pc = "name" THEN "slug" ELSE "slug of slug"
    /\ UNCHANGED <<decisionsDirExists, fs, created, local, writer, schemaFile,
                   results, dirs, exitCode>>

NextSlug == Sanitize

SpecSlug == InitSlug /\ [][NextSlug]_vars

----------------------------------------------------------------------------
(* validateSchema applied to one field under one property schema
   (specification SpecSchema) *)

\* the values of the field: strings of 0, 1, 4 and 6 characters, the last one
\* matching NumberedPattern, arrays of 0, 1 and 3 items, a number, null
FieldValues ==
    {JStr(<<>>), JStr(<<"x">>), JStr(<<"a", "b", "c", "d">>),
     JStr(<<"0", "0", "1", "-", "a", "b">>),
     JArr(<<>>), JArr(<<JNum(1)>>), JArr(<<JNum(1), JNum(2), JNum(3)>>),
     JNum(7), JNull}

\* the data: an object with the field summary, or without it
FieldData ==
    {JObj(NoFields)} \cup {JObj([k \in {"summary"} |-> v]) : v \in FieldValues}

\* "type" of a property schema: none, a single type, a list of types
TypeDeclarations ==
    {[type |-> <<>>, typeIsArray |-> FALSE],
     [type |-> <<"string">>, typeIsArray |-> FALSE],
     [type |-> <<"array">>, typeIsArray |-> FALSE],
     [type |-> <<"string">>, typeIsArray |-> TRUE],
     [type |-> <<"string", "null">>, typeIsArray |-> TRUE],
     [type |-> <<"array", "null">>, typeIsArray |-> TRUE]}

\* the property schemas of summary: a type declaration and any of minLength 2,
\* maxLength 3, a pattern, minItems 2
FieldSchemas ==
    {[EmptySchema EXCEPT !.type = d.type, !.typeIsArray = d.typeIsArray,
                         !.minLength = min, !.maxLength = max,
                         !.pattern = pattern, !.minItems = items] :
        d \in TypeDeclarations, min \in {0, 2}, max \in {0, 3},
        pattern \in {"", NumberedPattern}, items \in {0, 2}}

InitSchema ==
    /\ record \in FieldData
    /\ \E s \in FieldSchemas :
          schemaFile = JsonFile([EmptySchema EXCEPT
                                    !.properties = <<[key |-> "summary", schema |-> s]>>])
    /\ pc = "start"
    /\ results = <<>>
    /\ last = NoInvocation /\ local = NoRun
    /\ decisionsDirExists = FALSE /\ fs = NoRun /\ created = <<>>
    /\ writer = NoRun /\ dirs = {} /\ exitCode = -1

\* const schemaErrors = validateSchema(decisionData, schema)
ValidateSchema ==
    /\ pc = "start"
    /\ pc' = "exit"
    /\ results' = <<validateSchema(record, schemaFile.data)>>
    /\ UNCHANGED <<decisionsDirExists, fs, created, last, local, writer, record,
                   schemaFile, dirs, exitCode>>

NextSchema == ValidateSchema

SpecSchema == InitSchema /\ [][NextSchema]_vars

----------------------------------------------------------------------------
(* validate <id>, a status added to decision.json by hand, validate <id>
   again (specification SpecEdit) *)

\* an object without one of its keys
WithoutKey(d, key) == JObj([k \in DOMAIN d.f \ {key} |-> d.f[k]])

\* decision.json documents without a status
StatusLess ==
    {WithoutKey(CompleteDecision, "status"), WithoutKey(SparseDecision, "status"),
     WithoutKey(PoorDecision, "status"), IdOnlyDecision, JObj(NoFields)}

\* a schema that knows the status values and does not require the status
OptionalStatusSchema == [DecisionSchema EXCEPT !.required = <<"id">>]

InitEdit ==
    /\ decisionsDirExists = TRUE
    /\ record = RecordName
    /\ \E d \in StatusLess, p \in {NoJson, CorruptJson, JsonFile(JObj(NoFields))},
          c \in {NoJson, CorruptJson}, m \in {NoText, TextFile(<<"#">>)} :
          fs = (record :> Dir(JsonFile(d), p, c, m))
    /\ schemaFile \in SchemaDocs \cup {JsonFile(OptionalStatusSchema)}
    /\ local \in [verbose : BOOLEAN]
    /\ results = <<>> /\ dirs = {} /\ exitCode = -1
    /\ pc = "start"
    /\ created = <<>> /\ last = NoInvocation /\ writer = NoRun

\* between two runs the author writes a status into decision.json
AddStatus(value) ==
    /\ pc = "exit" /\ last = NoInvocation
    /\ fs' = [fs EXCEPT ![record].json = JsonFile(Put(@.data, "status", JStr(value)))]
    /\ last' = [op |-> "edit", before |-> results[1]]
    /\ pc' = "start" /\ results' = <<>> /\ exitCode' = -1
    /\ UNCHANGED <<decisionsDirExists, created, local, writer, record, schemaFile, dirs>>

NextEdit ==
    \/ ValidateId
    \/ \E value \in {Proposed, Accepted} : AddStatus(value)

SpecEdit == InitEdit /\ [][NextEdit]_vars

----------------------------------------------------------------------------
(* Claims on concurrent runs *)

\* both invocations have computed the same target directory
SameTarget == local[1].target # <<>> /\ local[1].target = local[2].target

Refused(p) == pc[p] = "exit" /\ local[p].msg = "Decision already exists"

\* C5: of two concurrent creates that compute the same target directory at
\* most one copies the template, the other one fails with 'Decision already
\* exists' and exit code 1, and no file written by one is overwritten by the
\* other
C5_OneCopiesOtherRefused ==
    SameTarget =>
        /\ ~(local[1].copies > 0 /\ local[2].copies > 0)
        /\ (pc[1] = "exit" /\ pc[2] = "exit")
              => \E p \in Procs : Refused(p) /\ local[p].exit = 1
        /\ \A k \in DOMAIN writer : Cardinality(writer[k]) <= 1

\* C6: a create that finds its target path present exits with a non-zero
\* code having made no directory and written no file
C6_RefusalWritesNothing ==
    \A p \in Procs :
        Refused(p) =>
            /\ local[p].exit = 1
            /\ local[p].writes = 0
            /\ \A k \in DOMAIN writer : p \notin writer[k]

\* an invocation was refused on the directory the other invocation has made
C6_Witness ==
    \E p \in Procs :
        /\ Refused(p)
        /\ local[Other(p)].target = local[p].target
        /\ isDirectory(fs[local[p].target])
        /\ local[Other(p)].writes > 0

----------------------------------------------------------------------------
(* Claims on sequential runs *)

\* the latest invocation was a create that succeeded
Succeeded == last.op = "create" /\ last.exit = 0

\* the names of the record directories present
RecordDirs == {n \in DOMAIN fs : isDirectory(fs[n]) /\ matchNumber(n) # <<>>}

\* C3 as stated: over the whole run, no two directories the tool created
\* carry the same sequence number
C3_NeverSameNumber ==
    \A i, j \in DOMAIN created : i < j => created[i].number # created[j].number

\* C3 as amended: at every moment of a sequential run of creates and
\* removals, the record directories present carry pairwise distinct sequence
\* numbers
C3_PresentNumbersDistinct ==
    \A a, b \in RecordDirs :
        a # b => parseInt(matchNumber(a)) # parseInt(matchNumber(b))

\* two directories the tool created are present next to a hand-made record
C3_Witness ==
    /\ Len(created) = 2
    /\ created[1].target # created[2].target
    /\ {created[1].target, created[2].target} \subseteq RecordDirs
    /\ RecordDirs \ {created[1].target, created[2].target} # {}

\* C4 as stated: the number given to a new record is at least the number
\* given to every record created before it
C4_NonDecreasing ==
    \A i, j \in DOMAIN created :
        i < j => parseInt(created[j].number) >= parseInt(created[i].number)

\* C4 as amended: the number given to a new record is greater than the
\* number of every record directory present when it is created
C4_AbovePresent ==
    [][(Len(created') = Len(created) + 1)
          => \A n \in RecordDirs :
                parseInt(Last(created').number) > parseInt(matchNumber(n))]_vars

\* a second record has just been created above a created and a hand-made
\* record that are present
C4_Witness ==
    /\ Succeeded /\ Len(created) = 2
    /\ created[1].target \in RecordDirs
    /\ parseInt(created[2].number) > parseInt(created[1].number)
    /\ RecordDirs \ {created[1].target, created[2].target} # {}

\* C7: a create that follows a successful create of the same slug fails with
\* the already-exists error and exit code 1 and leaves the directory as it was
C7_DuplicateSlugRefused ==
    [][(/\ Succeeded /\ last'.op = "create" /\ last' # last
        /\ sanitizeName(last'.arg) = sanitizeName(last.arg))
          => (/\ last'.exit = 1
              /\ last'.msg = "Decision already exists"
              /\ fs' = fs)]_vars

\* the template's decision.json parses to an object with a provenanceCode object
Patchable(json) ==
    /\ json.present /\ json.parses /\ json.data.t = "object"
    /\ Get(json.data, "provenanceCode").t = "object"

\* C8: from a directory holding only a patchable TEMPLATE, create "Use
\* Postgresql" exits 0 and makes 001-use-postgresql, whose decision.json has
\* that id, the title "Use Postgresql" and the current date; after every
\* successful create from a patchable template the id is the directory name
\* NNN-slug
C8_FreshProject ==
    (last.op = "create" /\ TEMPLATE \in DOMAIN fs
     /\ isDirectory(fs[TEMPLATE]) /\ Patchable(fs[TEMPLATE].json))
        => LET onlyTemplate ==
                   /\ Len(created) = IF last.exit = 0 THEN 1 ELSE 0
                   /\ DOMAIN fs \ (IF last.wrote THEN {last.target} ELSE {}) = {TEMPLATE}
           IN  /\ (onlyTemplate /\ last.arg = UsePostgresql)
                    => /\ last.exit = 0
                       /\ last.target = <<"0", "0", "1", "-", "u", "s", "e", "-", "p", "o", "s", "t", "g", "r", "e", "s", "q", "l">>
                       /\ last.target \in DOMAIN fs
                       /\ Get(fs[last.target].json.data, "id") = JStr(<<"0", "0", "1", "-", "u", "s", "e", "-", "p", "o", "s", "t", "g", "r", "e", "s", "q", "l">>)
                       /\ Get(fs[last.target].json.data, "title") = JStr(UsePostgresql)
                       /\ Get(fs[last.target].json.data, "date") = JStr(SubSeq(last.iso, 1, 10))
               /\ last.exit = 0
                    => /\ last.target \in RecordDirs
                       /\ Len(matchNumber(last.target)) >= PadWidth
                       /\ Get(fs[last.target].json.data, "id") = JStr(last.target)

\* the fresh-project run has created 001-use-postgresql
C8_Witness ==
    /\ Succeeded /\ Len(created) = 1 /\ last.arg = UsePostgresql
    /\ DOMAIN fs = {TEMPLATE, <<"0", "0", "1", "-", "u", "s", "e", "-", "p", "o", "s", "t", "g", "r", "e", "s", "q", "l">>}
    /\ Patchable(fs[TEMPLATE].json)

----------------------------------------------------------------------------
(* Claims on validation *)

\* C1: the result of validateDecisionRecord has valid = true exactly when its
\* errors list is empty, whatever files are present, absent or corrupt;
\* warnings never make valid false
C1_ValidIffNoErrors ==
    \A i \in 1..Len(results) :
        results[i].valid <=> (results[i].errors = <<>>)

\* a record found valid although several warnings were raised
C1_Witness ==
    /\ pc = "exit" /\ Len(results) = 1
    /\ results[1].valid /\ Len(results[1].warnings) >= 3 /\ exitCode = 0

\* the record directories validate --all is about
BatchDirs == {d \in DOMAIN fs : isDirectory(fs[d]) /\ d # TEMPLATE}

\* what validateDecisionRecord makes of a directory on its own
Verdict(d) == validateDecisionRecord(d, fs[d], schemaFile, local.verbose)

\* C9: validate --all exits with code 1 if and only if at least one
\* non-TEMPLATE record directory is invalid, exits 0 when every record is valid
\* even with warnings, and prints total = valid + invalid over exactly the
\* non-TEMPLATE directories
C9_ExitOneIffInvalid ==
    pc = "exit" =>
        /\ exitCode = 1 <=> \E d \in BatchDirs : ~Verdict(d).valid
        /\ exitCode \in {0, 1}
        /\ decisionsDirExists =>
              /\ last.total = last.valid + last.invalid
              /\ last.total = Cardinality(BatchDirs)

\* C9 (amended): when provenance/decisions exists, validate --all exits 1 if
\* and only if some non-TEMPLATE record directory is invalid, exits 0
\* otherwise, warnings or not, and prints total = valid + invalid over exactly
\* the non-TEMPLATE directories; when provenance/decisions is missing it exits
\* 1 without validating anything and without a summary
C9_ExitOneIffInvalidOrMissing ==
    pc = "exit" =>
        IF decisionsDirExists
        THEN /\ exitCode = 1 <=> \E d \in BatchDirs : ~Verdict(d).valid
             /\ exitCode \in {0, 1}
             /\ last.op = "validate --all"
             /\ last.total = last.valid + last.invalid
             /\ last.total = Cardinality(BatchDirs)
             /\ last.invalid = Cardinality({d \in BatchDirs : ~Verdict(d).valid})
        ELSE exitCode = 1 /\ results = <<>> /\ last = NoInvocation

\* one invalid and two valid records beside TEMPLATE: total=3, valid=2,
\* invalid=1, exit 1
C9_Witness ==
    /\ pc = "exit" /\ decisionsDirExists /\ TEMPLATE \in DOMAIN fs
    /\ last.op = "validate --all"
    /\ last.total = 3 /\ last.valid = 2 /\ last.invalid = 1
    /\ last.totalWarnings > 0
    /\ exitCode = 1

\* C10: in validate --all a record with a document that does not parse gets
\* a validation error of its own, the run goes on, and every non-TEMPLATE
\* record directory is validated exactly once and counted in the summary,
\* whatever the order of enumeration
C10_ParseErrorDoesNotAbort ==
    (pc = "exit" /\ decisionsDirExists) =>
        /\ Len(results) = Cardinality(BatchDirs)
        /\ {results[i].name : i \in 1..Len(results)} = BatchDirs
        /\ \A i \in 1..Len(results) : results[i] = Verdict(results[i].name)
        /\ \A i \in 1..Len(results) :
              (\E f \in {"json", "prov", "c2pa"} :
                  fs[results[i].name][f].present /\ ~fs[results[i].name][f].parses)
                  => ~results[i].valid /\ results[i].errors # <<>>
        /\ last.op = "validate --all" /\ last.total = Cardinality(BatchDirs)

\* a run that met a record with an unparsable decision.json first and went on
\* to find two other records valid
C10_Witness ==
    /\ pc = "exit" /\ Len(results) = 3
    /\ ~fs[results[1].name].json.parses /\ fs[results[1].name].json.present
    /\ ~results[1].valid
    /\ results[2].valid /\ results[3].valid
    /\ last.op = "validate --all" /\ last.total = 3

----------------------------------------------------------------------------
(* Claims on validate <id> (specification SpecRecord) *)

\* C11: validate <id> exits 0 if and only if the record is valid (warnings
\* or not), exits 1 when the record is invalid, and exits 1 without
\* validating anything when provenance/decisions/<id> does not exist
C11_ExitCodeOfValidateId ==
    pc = "exit" =>
        IF record \in DOMAIN fs
        THEN /\ results = <<Verdict(record)>>
             /\ exitCode \in {0, 1}
             /\ exitCode = 0 <=> Verdict(record).errors = <<>>
             /\ exitCode = 1 <=> Verdict(record).errors # <<>>
        ELSE exitCode = 1 /\ results = <<>>

\* provenance/decisions/<id> is missing: exit 1 and nothing validated
C11_Witness ==
    /\ pc = "exit" /\ record \notin DOMAIN fs
    /\ exitCode = 1 /\ results = <<>>

\* how many times a message is in a list of messages
Count(messages, m) == Cardinality({i \in 1..Len(messages) : messages[i] = m})

\* the errors validateDecisionRecord can raise about one file
ErrorsAbout(file) ==
    {"Missing required file: " \o file, "Missing optional file: " \o file,
     "Invalid JSON in " \o file \o ": Unexpected token",
     "Invalid JSON in " \o file \o ": Cannot read properties of null",
     "Invalid JSON in " \o file \o ": Invalid regular expression",
     "Invalid JSON in " \o file \o ": Cannot use 'in' operator"}

\* C12: each of the two required files (decision.md, decision.json) that is
\* absent adds exactly one error and makes the record invalid; each of the
\* two optional files (prov.jsonld, c2pa.manifest.json) that is absent adds
\* exactly one warning and never an error
C12_MissingFiles ==
    (pc = "exit" /\ record \in DOMAIN fs) =>
        /\ \A f \in {"decision.md", "decision.json"} :
              IF FileOf(fs[record], f).present
              THEN Count(results[1].errors, "Missing required file: " \o f) = 0
              ELSE /\ Count(results[1].errors, "Missing required file: " \o f) = 1
                   /\ \A m \in ErrorsAbout(f) \ {"Missing required file: " \o f} :
                         Count(results[1].errors, m) = 0
                   /\ Count(results[1].warnings, "Missing required file: " \o f) = 0
                   /\ ~results[1].valid /\ exitCode = 1
        /\ \A f \in {"prov.jsonld", "c2pa.manifest.json"} :
              IF FileOf(fs[record], f).present
              THEN Count(results[1].warnings, "Missing optional file: " \o f) = 0
              ELSE /\ Count(results[1].warnings, "Missing optional file: " \o f) = 1
                   /\ \A m \in ErrorsAbout(f) : Count(results[1].errors, m) = 0
        /\ (\A f \in {"decision.md", "decision.json"} : FileOf(fs[record], f).present)
              => Len(results[1].errors) =
                    Len(validateDecisionRecord(record,
                            [fs[record] EXCEPT !.prov = JsonFile(JObj(NoFields)),
                                               !.c2pa = JsonFile(JObj(NoFields))],
                            schemaFile, local.verbose).errors)
                    + (IF fs[record].prov.present /\ (~fs[record].prov.parses
                                                      \/ NoProperties(fs[record].prov.data))
                       THEN 1 ELSE 0)
                    + (IF fs[record].c2pa.present /\ ~fs[record].c2pa.parses
                       THEN 1 ELSE 0)

\* a directory without decision.md, prov.jsonld and c2pa.manifest.json whose
\* decision.json is complete: one error, two warnings, exit 1
C12_Witness ==
    /\ pc = "exit" /\ record \in DOMAIN fs /\ isDirectory(fs[record])
    /\ ~fs[record].md.present /\ ~fs[record].prov.present /\ ~fs[record].c2pa.present
    /\ fs[record].json = JsonFile(CompleteDecision)
    /\ ~schemaFile.present
    /\ results[1].errors = <<"Missing required file: decision.md">>
    /\ Count(results[1].warnings, "Missing optional file: prov.jsonld") = 1
    /\ Count(results[1].warnings, "Missing optional file: c2pa.manifest.json") = 1
    /\ exitCode = 1

\* a list of one message when a condition holds, the empty list otherwise
When(condition, m) == IF condition THEN <<m>> ELSE <<>>

\* the findings of the auxiliary-document blocks on a directory entry
AuxErrors(entry) ==
    When(entry.prov.present /\ ~entry.prov.parses,
         "Invalid JSON in prov.jsonld: Unexpected token")
    \o When(entry.prov.present /\ entry.prov.parses /\ NoProperties(entry.prov.data),
            "Invalid JSON in prov.jsonld: Cannot read properties of null")
    \o When(entry.c2pa.present /\ ~entry.c2pa.parses,
            "Invalid JSON in c2pa.manifest.json: Unexpected token")

AuxWarnings(entry) ==
    When(/\ entry.prov.present /\ entry.prov.parses
         /\ ~NoProperties(entry.prov.data)
         /\ "@context" \notin DOMAIN entry.prov.data.f,
         "prov.jsonld missing @context")

\* C13: if decision.json exists but fails to parse, validation records one
\* error for it and performs none of the schema or content-heuristic checks,
\* while the file-existence findings made before it are kept and the
\* auxiliary-document checks after it are still performed
C13_UnparsableDecisionJson ==
    (/\ pc = "exit" /\ record \in DOMAIN fs
     /\ fs[record].json.present /\ ~fs[record].json.parses) =>
        /\ results[1].errors =
              When(~fs[record].md.present, "Missing required file: decision.md")
              \o <<"Invalid JSON in decision.json: Unexpected token">>
              \o AuxErrors(fs[record])
        /\ results[1].warnings =
              When(~fs[record].prov.present, "Missing optional file: prov.jsonld")
              \o When(~fs[record].c2pa.present, "Missing optional file: c2pa.manifest.json")
              \o AuxWarnings(fs[record])
        /\ ~results[1].valid /\ exitCode = 1

\* decision.json does not parse, decision.md is missing, prov.jsonld lacks
\* @context, a schema file is there: the three findings and nothing else
C13_Witness ==
    /\ pc = "exit" /\ record \in DOMAIN fs
    /\ fs[record].json = CorruptJson
    /\ schemaFile = JsonFile(DecisionSchema)
    /\ results[1].errors = <<"Missing required file: decision.md",
                             "Invalid JSON in decision.json: Unexpected token">>
    /\ results[1].warnings = <<"Missing optional file: c2pa.manifest.json",
                               "prov.jsonld missing @context">>

SchemaNotFound == "Schema file not found, skipping schema validation"

\* a list of messages without one message
Without(messages, m) == SelectSeq(messages, LAMBDA x : x # m)

\* C14: when provenance/schemas/decision.schema.json is absent, validation
\* of a parsed decision.json skips the schema step, adds exactly one warning
\* for it and no error, and still runs every content-heuristic check (the
\* findings are those under a schema that asks for nothing, plus the
\* warning), so a record that passes the heuristics and file checks is valid
C14_SchemaFileAbsent ==
    (/\ pc = "exit" /\ record \in DOMAIN fs /\ ~schemaFile.present
     /\ fs[record].json.present /\ fs[record].json.parses) =>
        /\ Count(results[1].warnings, SchemaNotFound) = 1
        /\ Count(results[1].errors, SchemaNotFound) = 0
        /\ results[1].errors =
              validateDecisionRecord(record, fs[record], JsonFile(EmptySchema),
                                     local.verbose).errors
        /\ Without(results[1].warnings, SchemaNotFound) =
              validateDecisionRecord(record, fs[record], JsonFile(EmptySchema),
                                     local.verbose).warnings
        /\ (/\ fs[record].json = JsonFile(CompleteDecision)
            /\ fs[record].md.present
            /\ AuxErrors(fs[record]) = <<>>)
              => results[1].valid /\ exitCode = 0

\* no schema file, a decision.json with a short title and no date: the
\* warning for the schema, the errors of the heuristics, exit 1
C14_Witness ==
    /\ pc = "exit" /\ record \in DOMAIN fs /\ ~schemaFile.present
    /\ fs[record].json = JsonFile(PoorDecision)
    /\ Count(results[1].warnings, SchemaNotFound) = 1
    /\ Count(results[1].errors, "Title is missing or too short") = 1
    /\ Count(results[1].errors, "Date is missing") = 1
    /\ exitCode = 1

\* a JSON value is an object with the key
Has(d, key) == d.t = "object" /\ key \in DOMAIN d.f

\* the key is absent, or its value is a string or an array shorter than n
AbsentOrShorter(d, key, n) ==
    \/ ~Has(d, key)
    \/ d.f[key].t = "string" /\ Len(d.f[key].s) < n
    \/ d.f[key].t = "array" /\ Len(d.f[key].items) < n

\* the heuristics that are errors, on decision data d with errors e
ErrorSeverities(d, e) ==
    /\ AbsentOrShorter(d, "title", MinTitleLength)
          => Count(e, "Title is missing or too short") = 1
    /\ ~Has(d, "status") => Count(e, "Status is missing") = 1
    /\ ~Has(d, "date") => Count(e, "Date is missing") = 1
    /\ ~Has(d, "consequences") => Count(e, "Consequences section is missing") = 1
    /\ (/\ AbsentOrShorter(d, "title", MinTitleLength) /\ ~Has(d, "status")
        /\ ~Has(d, "date") /\ ~Has(d, "consequences")) => Len(e) >= 4

\* the heuristics that are warnings, on decision data d with warnings w
WarningSeverities(d, w) ==
    /\ (~Has(d, "context") \/ ~Has(d.f.context, "problem"))
          => Count(w, "Context or problem description is missing") = 1
    /\ (/\ Has(d, "context") /\ Has(d.f.context, "problem")
        /\ AbsentOrShorter(d.f.context, "problem", MinProblemLength))
          => Count(w, "Problem description is very short (< 50 characters)") = 1
    /\ (~Has(d, "decision") \/ ~Has(d.f.decision, "summary"))
          => Count(w, "Decision summary is missing") = 1
    /\ (Has(d, "consequences") /\ AbsentOrShorter(d.f.consequences, "positive", 1))
          => Count(w, "No positive consequences listed") = 1
    /\ (Has(d, "consequences") /\ AbsentOrShorter(d.f.consequences, "negative", 1))
          => Count(w, "No negative consequences listed (be honest about trade-offs!)") = 1
    /\ AbsentOrShorter(d, "alternatives", 1)
          => Count(w, "No alternatives considered (recommended to document)") = 1
    /\ ~Has(d, "evidence")
          => Count(w, "No evidence provided (recommended for important decisions)") = 1

\* the messages of the heuristics that are warnings
HeuristicWarnings ==
    {"Context or problem description is missing",
     "Problem description is very short (< 50 characters)",
     "Decision summary is missing", "No positive consequences listed",
     "No negative consequences listed (be honest about trade-offs!)",
     "No alternatives considered (recommended to document)",
     "No evidence provided (recommended for important decisions)"}

\* C15: for a parsed decision.json, a title that is absent or shorter than
\* 5 characters, an absent status, an absent date and an absent consequences
\* object each add an error ({"id": "002-x"} yields at least 4 errors and
\* exit 1); an absent or short context.problem, an absent decision.summary,
\* an empty or absent consequences.positive or .negative, absent or empty
\* alternatives and absent evidence each add a warning and never an error
C15_HeuristicSeverities ==
    (/\ pc = "exit" /\ record \in DOMAIN fs
     /\ fs[record].json.present /\ fs[record].json.parses) =>
        /\ ErrorSeverities(fs[record].json.data, results[1].errors)
        /\ WarningSeverities(fs[record].json.data, results[1].warnings)
        /\ \A m \in HeuristicWarnings : Count(results[1].errors, m) = 0
        /\ fs[record].json.data = IdOnlyDecision => exitCode = 1

\* the exception of the schema step or of a value without properties
\* reaches the catch clause before the heuristics
HeuristicsReached ==
    /\ record \in DOMAIN fs
    /\ fs[record].json.present /\ fs[record].json.parses
    /\ ~NoProperties(fs[record].json.data)
    /\ ~checkSchema(newResults(record), fs[record].json.data, schemaFile, FALSE).threw

\* C15, where the heuristics are reached: the severities are the claimed ones
C15_SeveritiesWhenReached ==
    (pc = "exit" /\ HeuristicsReached) =>
        /\ ErrorSeverities(fs[record].json.data, results[1].errors)
        /\ WarningSeverities(fs[record].json.data, results[1].warnings)
        /\ \A m \in HeuristicWarnings : Count(results[1].errors, m) = 0
        /\ fs[record].json.data = IdOnlyDecision => exitCode = 1

\* a prov.jsonld with an @context
ProvWithContext == JsonFile(JObj([x \in {"@context"} |-> JStr(<<"p", "r", "o", "v">>)]))

\* what the claim says of the auxiliary documents of an entry, for the prov
\* documents that satisfy a condition
AuxiliaryChecks(entry, r, provCase) ==
    /\ \A f \in {"prov.jsonld", "c2pa.manifest.json"} :
          /\ (FileOf(entry, f).present /\ ~FileOf(entry, f).parses)
                => /\ Count(r.errors, "Invalid JSON in " \o f \o ": Unexpected token") = 1
                   /\ ~r.valid
          /\ ~FileOf(entry, f).present
                => \A m \in ErrorsAbout(f) : Count(r.errors, m) = 0
    /\ (/\ entry.prov.present /\ entry.prov.parses
        /\ ~Has(entry.prov.data, "@context") /\ provCase)
          => /\ Count(r.warnings, "prov.jsonld missing @context") = 1
             /\ \A m \in ErrorsAbout("prov.jsonld") : Count(r.errors, m) = 0
             /\ r.errors = validateDecisionRecord(record,
                                [entry EXCEPT !.prov = ProvWithContext],
                                schemaFile, local.verbose).errors

\* C16: for each auxiliary document that is present (prov.jsonld,
\* c2pa.manifest.json) a parse failure adds an error and makes the record
\* invalid; a prov.jsonld that parses but lacks @context adds a warning only
\* and does not make the record invalid; an absent auxiliary document is not
\* parsed at all
C16_AuxiliaryDocuments ==
    (pc = "exit" /\ record \in DOMAIN fs) =>
        AuxiliaryChecks(fs[record], results[1], TRUE)

\* C16, for a prov.jsonld that does not hold null
C16_ExceptNullProv ==
    (pc = "exit" /\ record \in DOMAIN fs) =>
        AuxiliaryChecks(fs[record], results[1], ~NoProperties(fs[record].prov.data))

----------------------------------------------------------------------------
(* Claims on the command lines (specification SpecMain) *)

\* validate without a record id, --all or a help option; create without a name
Malformed ==
    \/ /\ local.tool = "validate-decision.js"
       /\ ~parseOptions(local.args).all /\ ~parseOptions(local.args).help
       /\ Not(findDecisionId(local.args))
    \/ /\ local.tool \in {"new-decision.js", "new-decision.sh"}
       /\ Len(local.args) = 0

\* the run prints the usage text, exits with a code other than 0 and leaves
\* provenance/decisions as it was
UsageError ==
    /\ pc' = "exit"
    /\ last' = Usage(local.tool)
    /\ exitCode' >= 1
    /\ fs' = fs /\ decisionsDirExists' = decisionsDirExists

\* C17: a malformed invocation - validate with neither a record id nor
\* --all (including no arguments at all), or create with no name - is
\* reported with the usage text, makes the process exit with a non-zero code
\* and attempts no filesystem mutation
C17_MalformedInvocation ==
    [][(pc = "main" /\ Malformed) => UsageError]_vars

\* C17, for the malformed invocations other than validate without arguments
C17_ExceptValidateNoArguments ==
    [][(/\ pc = "main" /\ Malformed
        /\ ~(local.tool = "validate-decision.js" /\ local.args = <<>>))
          => UsageError]_vars

\* validate without arguments prints the usage text and exits 0
C17_ValidateNoArguments ==
    [][(pc = "main" /\ local.tool = "validate-decision.js" /\ local.args = <<>>)
          => (last' = Usage(local.tool) /\ exitCode' = 0 /\ fs' = fs)]_vars

\* the decisions directory without its TEMPLATE entry
WithoutTemplate == Restrict(fs, DOMAIN fs \ {TEMPLATE})

\* TEMPLATE has no part in allocation and is not in the output of list
NotAllocatedNotListed ==
    /\ getNextNumber(decisionsDirExists, fs)
          = getNextNumber(decisionsDirExists, WithoutTemplate)
    /\ get_next_number(decisionsDirExists, fs)
          = get_next_number(decisionsDirExists, WithoutTemplate)
    /\ last.op = "list" => \A i \in 1..Len(last.lines) : last.lines[i].name # TEMPLATE

\* C18: the reserved TEMPLATE directory is never treated as a record: it
\* does not influence identifier allocation, it never appears in list
\* output, and it is never validated as a record, neither by validate --all
\* nor by validate TEMPLATE
C18_TemplateIsNoRecord ==
    /\ NotAllocatedNotListed
    /\ \A i \in 1..Len(results) : results[i].name # TEMPLATE

\* C18, for every run but validate TEMPLATE
C18_ExceptValidateTemplate ==
    /\ NotAllocatedNotListed
    /\ (local.tool = "validate-decision.js" /\ parseOptions(local.args).all)
          => \A i \in 1..Len(results) : results[i].name # TEMPLATE

\* validate TEMPLATE validates the TEMPLATE directory like a record
C18_ValidateTemplate ==
    (/\ pc = "exit" /\ local.tool = "validate-decision.js"
     /\ local.args = <<TEMPLATE>> /\ TEMPLATE \in DOMAIN fs) =>
        /\ results = <<validateDecisionRecord(TEMPLATE, fs[TEMPLATE], schemaFile, FALSE)>>
        /\ exitCode = IF results[1].valid THEN 0 ELSE 1

\* the names of the lines of a list, in the order printed
Printed == [i \in 1..Len(last.lines) |-> last.lines[i].name]

\* the non-TEMPLATE directories of provenance/decisions
Listed(name) == isDirectory(fs[name]) /\ name # TEMPLATE

Lexicographic(names) ==
    \A i \in 1..Len(names), j \in 1..Len(names) : i < j => LexLess(names[i], names[j])

----------------------------------------------------------------------------
(* Claims on the round trip of a status (specification SpecEdit) *)

\* the errors that report a missing status: the heuristic's and the schema's
StatusErrors == {"Status is missing", "Missing required field: status"}

\* a list of messages without the errors that report a missing status
WithoutStatusErrors(messages) == SelectSeq(messages, LAMBDA m : m \notin StatusErrors)

\* the second run, on the decision.json with the status, has ended
Revalidated == pc = "exit" /\ last.op = "edit" /\ Len(results) = 1

----------------------------------------------------------------------------
(* Claims on one create by either tool *)

\* search occurs in text
Occurs(text, search) ==
    \E i \in 1..(Len(text) - Len(search) + 1) :
        SubSeq(text, i, i + Len(search) - 1) = search

\* the last invocation was a create that got past the refusals of the name
\* and of the target, on a TEMPLATE directory
PastRefusals ==
    /\ last.op = "create"
    /\ last.msg \notin {"Invalid decision name", "Decision already exists",
                        "cp: cannot overwrite non-directory"}
    /\ TEMPLATE \in DOMAIN fs /\ isDirectory(fs[TEMPLATE])

\* the TEMPLATE's decision.json is there and cannot be parsed or patched
Unpatchable ==
    fs[TEMPLATE].json.present /\ patchThrows(fs[TEMPLATE].json)

\* C21: when the copied decision.json cannot be parsed or patched, create
\* warns once, leaves decision.json identical to the template's file, still
\* rewrites prov.jsonld, c2pa.manifest.json and decision.md, and exits 0
\* reporting success
C21_PatchSkippedWithWarning ==
    (PastRefusals /\ Unpatchable)
        => /\ exitCode = 0 /\ last.exit = 0
           /\ last.msg = "Decision record created successfully!"
           /\ Len(last.warnings) = 1
           /\ last.target \in DOMAIN fs
           /\ fs[last.target].json = fs[TEMPLATE].json
           /\ fs[last.target].prov.present = fs[TEMPLATE].prov.present
           /\ fs[last.target].c2pa.present = fs[TEMPLATE].c2pa.present
           /\ fs[last.target].md.present = fs[TEMPLATE].md.present
           /\ ~Occurs(fs[last.target].prov.text, DecisionPrefix \o TemplateId)
           /\ ~Occurs(fs[last.target].c2pa.text, TemplateId)
           /\ ~Occurs(fs[last.target].md.text, DatePlaceholder)

\* a create from a TEMPLATE whose decision.json parses to an object without
\* provenanceCode has run, and the TEMPLATE's other documents named the template
C21_Witness ==
    /\ PastRefusals /\ Unpatchable
    /\ fs[TEMPLATE].json.parses /\ fs[TEMPLATE].json.data.t = "object"
    /\ Occurs(fs[TEMPLATE].prov.text, DecisionPrefix \o TemplateId)
    /\ Occurs(fs[TEMPLATE].c2pa.text, TemplateId)
    /\ Occurs(fs[TEMPLATE].md.text, DatePlaceholder)
    /\ last.target \in DOMAIN fs

\* there is no directory provenance/decisions/TEMPLATE
NoTemplateDirectory ==
    ~(decisionsDirExists /\ TEMPLATE \in DOMAIN fs /\ isDirectory(fs[TEMPLATE]))

\* the name on the command line sanitizes to the empty slug in the tool run
EmptySlug ==
    IF local.tool = "new-decision.sh" THEN sanitize_name(local.args[1]) = <<>>
    ELSE sanitizeName(local.args[1]) = <<>>

\* the step leaves provenance/decisions as it was
Untouched == fs' = fs /\ decisionsDirExists' = decisionsDirExists

\* new-decision.js is run with a name of non-empty slug while TEMPLATE is a
\* regular file and the target does not exist
TemplateIsFile ==
    /\ local.tool = "new-decision.js" /\ ~EmptySlug
    /\ decisionsDirExists /\ TEMPLATE \in DOMAIN fs /\ ~isDirectory(fs[TEMPLATE])
    /\ last'.target \notin DOMAIN fs

\* C22: a create whose TEMPLATE directory is absent, or whose name sanitizes
\* to the empty slug, exits 1 and leaves the filesystem unchanged
C22_RefusedCreate ==
    [][(last'.op = "create" /\ (NoTemplateDirectory \/ EmptySlug))
          => (exitCode' = 1 /\ Untouched)]_vars

\* C22 where TEMPLATE is not a regular file met by new-decision.js: the create
\* exits 1 with the filesystem unchanged
C22_ExceptTemplateFile ==
    [][(last'.op = "create" /\ (NoTemplateDirectory \/ EmptySlug) /\ ~TemplateIsFile)
          => (exitCode' = 1 /\ Untouched /\ ~last'.wrote)]_vars

\* C22 where TEMPLATE is a regular file: new-decision.js makes the record
\* directory, fails to read TEMPLATE as a directory and exits 1
C22_TemplateFile ==
    [][(last'.op = "create" /\ TemplateIsFile)
          => /\ exitCode' = 1 /\ last'.msg = "uncaught exception"
             /\ DOMAIN fs' = DOMAIN fs \cup {last'.target}
             /\ fs'[last'.target] = EmptyDir]_vars

\* a create has been refused for the empty slug, the filesystem as before
C22_EmptySlugRefused ==
    /\ last.op = "create" /\ last.msg = "Invalid decision name"
    /\ exitCode = 1 /\ ~last.wrote

\* new-decision.js has left an empty record directory beside a regular file
\* named TEMPLATE
C22_DirectoryLeftBehind ==
    /\ last.op = "create" /\ last.msg = "uncaught exception" /\ exitCode = 1
    /\ last.target \in DOMAIN fs /\ fs[last.target] = EmptyDir
    /\ ~isDirectory(fs[TEMPLATE])

\* the number of places at which search occurs in text
Occurrences(text, search) ==
    Cardinality({i \in 1..(Len(text) - Len(search) + 1) :
                    SubSeq(text, i, i + Len(search) - 1) = search})

\* the last invocation was a create that made its record from a TEMPLATE
\* directory
Created ==
    /\ last.op = "create" /\ last.exit = 0
    /\ last.target \in DOMAIN fs /\ TEMPLATE \in DOMAIN fs

\* C26: after a successful create, c2pa.manifest.json and prov.jsonld name the
\* allocated identifier NNN-slug at every place where the template's files
\* name template-example-decision, and nowhere the template identifier
C26_TemplateIdReplaced ==
    Created
        => /\ ~Occurs(fs[last.target].c2pa.text, TemplateId)
           /\ Occurrences(fs[last.target].c2pa.text, last.target)
                 = Occurrences(fs[TEMPLATE].c2pa.text, TemplateId)
           /\ ~Occurs(fs[last.target].prov.text, TemplateId)
           /\ Occurrences(fs[last.target].prov.text, last.target)
                 = Occurrences(fs[TEMPLATE].prov.text, TemplateId)

\* C26 for a slug that does not hold the template date, and for the
\* occurrences in prov.jsonld that carry the decision: prefix: each is
\* replaced by the allocated identifier
C26_ExceptDateInSlug ==
    (Created /\ ~Occurs(last.target, TemplateDate))
        => /\ ~Occurs(fs[last.target].c2pa.text, TemplateId)
           /\ Occurrences(fs[last.target].c2pa.text, last.target)
                 = Occurrences(fs[TEMPLATE].c2pa.text, TemplateId)
           /\ ~Occurs(fs[last.target].prov.text, DecisionPrefix \o TemplateId)
           /\ Occurrences(fs[last.target].prov.text, DecisionPrefix \o last.target)
                 = Occurrences(fs[TEMPLATE].prov.text, DecisionPrefix \o TemplateId)

\* the record 001-2026-02-06 has been created on another day from the full
\* TEMPLATE, and its c2pa.manifest.json does not name it
C26_DateInSlugRewritten ==
    /\ Created /\ last.arg = TemplateDate
    /\ last.target = <<"0", "0", "1", "-">> \o TemplateDate
    /\ fs[TEMPLATE] = FullTemplate
    /\ SubSeq(last.iso, 1, 10) # TemplateDate
    /\ ~Occurs(fs[last.target].c2pa.text, last.target)
    /\ Occurs(fs[last.target].prov.text, DecisionPrefix \o last.target)

\* a record has been created from a prov.jsonld that names the template
\* without the decision: prefix, and still names it there
C26_UnprefixedLeft ==
    /\ Created /\ last.arg = UsePostgresql
    /\ Occurs(fs[last.target].prov.text, TemplateId)
    /\ Occurrences(fs[last.target].prov.text, last.target) = 2

\* the run of the other tool agrees with the step taken: same exit code, same
\* target NNN-slug, and after a success the same id and title in decision.json
Agrees(other) ==
    /\ other.exit = exitCode'
    /\ other.target = last'.target
    /\ other.number = last'.number
    /\ exitCode' = 0
         => /\ Get(other.entries[other.target].json.data, "id")
                  = Get(fs'[last'.target].json.data, "id")
            /\ Get(other.entries[other.target].json.data, "title")
                  = Get(fs'[last'.target].json.data, "title")

\* the tool that was not run, applied to the same name and directory
OtherToolAgrees ==
    \A iso \in Clock :
        Agrees(IF local.tool = "new-decision.sh"
               THEN createDecision(decisionsDirExists, fs, local.args[1], iso)
               ELSE create_decision(decisionsDirExists, fs, local.args[1],
                                    currentDateOf(iso), dateTimeOf(iso)))

\* C27: on the same name and the same directory, new-decision.sh and
\* new-decision.js compute the same slug, identifier and title, and create a
\* record of the same name with the same id and title in decision.json
C27_ShellAndNodeAgree ==
    [][last'.op = "create" => OtherToolAgrees]_vars

\* a name whose whitespace is single spaces between other characters, that
\* echo does not take for options, and whose slug has a character between any
\* two hyphens and at both ends
PlainName(name) ==
    /\ \A i \in 1..Len(name) : name[i] # "\t"
    /\ \A i \in 1..(Len(name) - 1) : ~(name[i] = " " /\ name[i + 1] = " ")
    /\ echo(name) = name
    /\ \A i \in 1..Len(split(sanitizeName(name), "-")) :
          split(sanitizeName(name), "-")[i] # <<>> \/ sanitizeName(name) = <<>>

\* C27 for plain names: the two tools agree
C27_AgreeOnPlainNames ==
    [][(last'.op = "create" /\ PlainName(local.args[1])) => OtherToolAgrees]_vars

\* new-decision.js has created 001-a-b from the name "a  b", for which
\* new-decision.sh computes 001-a--b
C27_TwoSpaces ==
    /\ last.op = "create" /\ last.exit = 0 /\ local.tool = "new-decision.js"
    /\ local.args[1] = <<"a", " ", " ", "b">>
    /\ last.target = <<"0", "0", "1", "-", "a", "-", "b">>
    /\ <<"0", "0", "1", "-">> \o sanitize_name(local.args[1])
          = <<"0", "0", "1", "-", "a", "-", "-", "b">>

\* both tools have a run that created 001-use-postgresql with the title "Use
\* Postgresql" from the name "Use Postgresql"
C27_PlainNameCreated ==
    /\ last.op = "create" /\ last.exit = 0 /\ local.args[1] = UsePostgresql
    /\ last.target = <<"0", "0", "1", "-">> \o use_postgresql
    /\ Get(fs[last.target].json.data, "title") = JStr(UsePostgresql)
    /\ local.tool = "new-decision.sh"

----------------------------------------------------------------------------
(* Claims on the declared id, the schema constraints and the origin of
   'Invalid JSON in decision.json' *)

\* the decision.json of the validated record declares the directory name as id
DeclaresOwnId ==
    /\ fs[record].json.present /\ fs[record].json.parses
    /\ Get(fs[record].json.data, "id") = JStr(record)

\* C23: a record reported valid declares, in its decision.json, an id equal to
\* the name of its directory
C23_ValidDeclaresOwnId ==
    (pc = "exit" /\ Len(results) = 1 /\ results[1].valid) => DeclaresOwnId

\* C23 as far as the code goes: a record reported valid has a decision.json
\* that parses, and declares an id where the schema in force requires one
C23_ValidDeclaresIdWhereRequired ==
    (pc = "exit" /\ Len(results) = 1 /\ results[1].valid)
        => /\ fs[record].json.present /\ fs[record].json.parses
           /\ schemaFile = JsonFile(DecisionSchema)
                => Get(fs[record].json.data, "id").t = "string"

\* a record declaring the id of another record has been reported valid under
\* the schema that requires an id
C23_MisnamedValid ==
    /\ pc = "exit" /\ Len(results) = 1 /\ results[1].valid /\ exitCode = 0
    /\ schemaFile = JsonFile(DecisionSchema)
    /\ fs[record].json = JsonFile(MisnamedDecision)

\* a record declaring no id has been reported valid without a schema file
C23_AnonymousValid ==
    /\ pc = "exit" /\ Len(results) = 1 /\ results[1].valid /\ exitCode = 0
    /\ schemaFile = NoJson
    /\ fs[record].json = JsonFile(AnonymousDecision)

----------------------------------------------------------------------------
(* Claims on the slug *)

\* the positions of name that leave a character in the slug: letters, digits,
\* hyphens, and the first character of each run of whitespace
Kept(name) ==
    {i \in 1..Len(name) :
        \/ name[i] \in {LowerChars[k] : k \in DOMAIN LowerChars}
        \/ name[i] \in {UpperChars[k] : k \in DOMAIN UpperChars}
        \/ name[i] \in {Digits[k] : k \in DOMAIN Digits}
        \/ name[i] = "-"
        \/ name[i] \in Whitespace /\ (i = 1 \/ name[i - 1] \notin Whitespace)}

\* the k-th position kept
KeptAt(name, k) ==
    CHOOSE i \in Kept(name) : Cardinality({j \in Kept(name) : j <= i}) = k

\* the slug the claim describes: one hyphen for each run of whitespace, letters
\* in lowercase, digits and hyphens as they are, nothing else
Hyphenated(name) ==
    [k \in 1..Cardinality(Kept(name)) |->
        IF name[KeptAt(name, k)] \in Whitespace THEN "-"
        ELSE IF IsUpper(name[KeptAt(name, k)]) THEN LowerOf[name[KeptAt(name, k)]]
        ELSE name[KeptAt(name, k)]]

\* C24: the slug of sanitizeName holds only lowercase letters, digits and
\* hyphens, with one hyphen for each run of whitespace and every other
\* character left out, and sanitizeName maps a slug to itself
C24_SlugShapeAndIdempotence ==
    /\ pc \in {"slug", "slug of slug"}
         => \A i \in 1..Len(record) :
               record[i] \in {LowerChars[k] : k \in DOMAIN LowerChars}
                             \cup {Digits[k] : k \in DOMAIN Digits} \cup {"-"}
    /\ pc = "slug" => record = Hyphenated(local.name)
    /\ pc = "slug of slug" => record = last.arg

\* sanitizeName has been applied twice, starting from a name with a run of two
\* whitespace characters, an uppercase letter and a character that is dropped
C24_Witness ==
    /\ pc = "slug of slug"
    /\ local.name = <<"B", " ", "\t", "!">>
    /\ record = <<"b", "-">>

----------------------------------------------------------------------------
(* Claims on the continuous-integration job *)

\* validate-decision.js was run as in the GitLab CI job of docs/quickstart.md
CiJob ==
    /\ local.tool = "validate-decision.js"
    /\ local.args = CiArgs(decisionsDirExists, fs)

\* every entry of provenance/decisions is a directory that validateDecisionRecord
\* finds valid
AllNamedValid ==
    /\ decisionsDirExists /\ DOMAIN fs # {}
    /\ \A name \in DOMAIN fs :
          /\ isDirectory(fs[name])
          /\ validateDecisionRecord(name, fs[name], schemaFile, FALSE).valid

\* C25: run as node tools/validate-decision.js provenance/decisions/*, the
\* tool validates the records named on the command line and exits 0 when all
\* of them are valid
C25_CiJobPassesValidRecords ==
    (pc = "exit" /\ CiJob /\ AllNamedValid)
        => /\ exitCode = 0
           /\ Len(results) > 0
           /\ \A i \in 1..Len(results) : results[i].valid

\* C25 as the code runs it: the first path is joined to DECISIONS_DIR again,
\* names nothing, and the job exits 1 without validating a record
C25_CiJobFindsNoRecord ==
    (pc = "exit" /\ CiJob)
        => /\ exitCode = 1
           /\ last.op = "Decision not found"
           /\ results = <<>>

\* the job has run on a directory of two valid records and exited 1
C25_ValidRecordsRejected ==
    /\ pc = "exit" /\ CiJob /\ AllNamedValid
    /\ Cardinality(DOMAIN fs) = 2
    /\ exitCode = 1

\* the property schema of summary and the value of summary in the data
SummarySchema == schemaFile.data.properties[1].schema

SummaryValue == Prop(record, "summary")

SummaryPresent == "summary" \in DOMAIN record.f

\* the errors validateSchema returned
SchemaErrors == results[1].errors

\* the constraint errors the value of summary calls for under the declared
\* minLength 2, maxLength 3, pattern and minItems 2
Violations ==
    (IF SummaryValue.t = "string" /\ SummarySchema.minLength = 2 /\ Len(SummaryValue.s) < 2
     THEN {"Field summary: minimum length is 2"} ELSE {})
    \cup (IF SummaryValue.t = "string" /\ SummarySchema.maxLength = 3 /\ Len(SummaryValue.s) > 3
          THEN {"Field summary: maximum length is 3"} ELSE {})
    \cup (IF SummaryValue.t = "string" /\ SummarySchema.pattern = NumberedPattern
             /\ matchNumber(SummaryValue.s) = <<>>
          THEN {"Field summary: does not match pattern ^\\d+-"} ELSE {})
    \cup (IF SummaryValue.t = "array" /\ SummarySchema.minItems = 2 /\ Len(SummaryValue.items) < 2
          THEN {"Field summary: minimum 2 items required"} ELSE {})

\* C28: validateSchema reports each violation of minLength, maxLength and
\* pattern by a string that is present and of minItems by an array that is
\* present, however the property schema declares its type, and reports
\* nothing for an absent field
C28_ConstraintsReported ==
    pc = "exit"
        => /\ ~results[1].threw
           /\ SummaryPresent
                => \A v \in Violations : \E i \in 1..Len(SchemaErrors) : SchemaErrors[i] = v
           /\ ~SummaryPresent => SchemaErrors = <<>>

\* "type" is the single string "string" for a string value, "array" for an array
SingleTypeOfValue ==
    /\ ~SummarySchema.typeIsArray
    /\ SummarySchema.type = <<SummaryValue.t>>

\* C28 as the code runs it: the violations are reported where "type" is the
\* single type of the value; under a list of types or without "type" no
\* constraint is checked; an absent field gives no error
C28_ConstraintsNeedSingleType ==
    pc = "exit"
        => /\ ~results[1].threw
           /\ (SummaryPresent /\ SingleTypeOfValue)
                => \A v \in Violations : \E i \in 1..Len(SchemaErrors) : SchemaErrors[i] = v
           /\ (SummaryPresent /\ ~SingleTypeOfValue)
                => \A v \in Violations : \A i \in 1..Len(SchemaErrors) : SchemaErrors[i] # v
           /\ ~SummaryPresent => SchemaErrors = <<>>

\* a one-character summary has passed minLength 2 under the type list
\* ["string", "null"] without an error
C28_ListOfTypesSkipsMinLength ==
    /\ pc = "exit" /\ SummaryValue = JStr(<<"x">>)
    /\ SummarySchema.type = <<"string", "null">> /\ SummarySchema.minLength = 2
    /\ SchemaErrors = <<>>

\* a one-character summary has been reported for minLength 2 under the type
\* "string"
C28_SingleTypeReports ==
    /\ pc = "exit" /\ SummaryValue = JStr(<<"x">>)
    /\ SingleTypeOfValue /\ SummarySchema.minLength = 2 /\ SummarySchema.pattern = ""
    /\ SchemaErrors = <<"Field summary: minimum length is 2">>

\* the errors the catch clause of the decision.json block can push
InvalidJsonErrors ==
    {"Invalid JSON in decision.json: " \o m :
        m \in {"Unexpected token", "Cannot read properties of null",
               "Cannot use 'in' operator", "Invalid regular expression"}}

\* the result of the validated record holds such an error
ReportsInvalidJson ==
    \E i \in 1..Len(results[1].errors) : results[1].errors[i] \in InvalidJsonErrors

\* C29: 'Invalid JSON in decision.json' is reported only when decision.json
\* fails to parse; a decision.json that parses to any JSON value, and any
\* state of the schema file, never produce it
C29_InvalidJsonOnlyOnParseFailure ==
    (pc = "exit" /\ Len(results) = 1 /\ ReportsInvalidJson)
        => fs[record].json.present /\ ~fs[record].json.parses

\* C29 as the code runs it: for a decision.json that parses, the error is
\* reported exactly when an exception keeps the run from the content
\* heuristics, and with the message of that exception
C29_InvalidJsonOnAnyException ==
    (pc = "exit" /\ Len(results) = 1 /\ fs[record].json.present /\ fs[record].json.parses)
        => (ReportsInvalidJson <=> ~HeuristicsReached)

\* a decision.json holding null has been reported as invalid JSON, without a
\* schema file
C29_NullReportedAsInvalidJson ==
    /\ pc = "exit" /\ Len(results) = 1
    /\ fs[record].json = JsonFile(JNull) /\ schemaFile = NoJson
    /\ ReportsInvalidJson

\* a complete decision.json has been reported as invalid JSON because the
\* schema file does not parse
C29_SchemaReportedAsInvalidJson ==
    /\ pc = "exit" /\ Len(results) = 1
    /\ fs[record].json = JsonFile(CompleteDecision) /\ schemaFile = CorruptJson
    /\ ReportsInvalidJson

----------------------------------------------------------------------------
(* Claims on the operations that only read *)

\* the step belongs to validate <id>, validate --all, list, --help or a usage
\* message: to every operation but create
ReadingStep == last'.op # "create"

\* C30: validate <id>, validate --all, list and --help create, modify or
\* delete no file or directory, whatever their outcome or exit code
C30_ReadOnlyOperations ==
    [][ReadingStep
          => /\ fs' = fs
             /\ decisionsDirExists' = decisionsDirExists
             /\ schemaFile' = schemaFile]_vars

\* validate --all has run to exit code 1 on a directory with an invalid record
C30_Witness ==
    /\ pc = "exit" /\ local.tool = "validate-decision.js"
    /\ hasArg(local.args, OptAll)
    /\ exitCode = 1 /\ Len(results) > 0
    /\ last.op = "validate --all" /\ last.invalid > 0

====
